---- MODULE Spec2Model ----
(***************************************************************************)
(* Governance checks of scripts/governance.                                *)
(*                                                                         *)
(* Every check is a one-shot process: it scans, reads its own baseline     *)
(* document, compares, possibly writes the document and exits with a code. *)
(* The persistent state is the set of baseline documents.  In Spec a       *)
(* behaviour follows the document of one check (job) through invocations   *)
(* that run one after the other, one action for one whole invocation.      *)
(*                                                                         *)
(* Invocations that run at the same time are followed file access by file  *)
(* access (SpecParallel for two different checks, SpecOverlap for two      *)
(* invocations of check_type_safety): each read, and each write_text as    *)
(* the open that truncates the file followed by the write.  Besides the    *)
(* baseline files the state then holds coverage.json, which                *)
(* check_per_file_baseline reads and the pytest subprocess of              *)
(* check_coverage_ratchet writes.                                          *)
(*                                                                         *)
(* Three more scripts are followed more closely: the AST fallback of       *)
(* check_circular_deps step by step through its traversal (SpecCycles),    *)
(* the file loop of check_type_holes (SpecScan), and the invocations of    *)
(* check_hallucinations_pypi, one loop iteration at a time, over its cache *)
(* file and the clock (SpecRegistry).                                      *)
(*                                                                         *)
(* Counts are naturals.  Coverage percentages are integers in hundredths   *)
(* of a point (80.2 is 8020); raw percentages of a coverage report that    *)
(* are rounded by the script are integers in thousandths (80.201 is 80201).*)
(***************************************************************************)
EXTENDS Integers, FiniteSets, Sequences, TLC

VARIABLES
    job,    \* the script this CI step invokes
    fs,     \* path -> content of the file: the baseline documents, and
            \* coverage.json where invocations run in parallel
    run     \* inputs and outcome of the most recent invocation

\* check_circular_deps.py: main, and check_with_ast_fallback one step of
\* its loops at a time.
VARIABLES
    pc,             \* "idle", "start", "fallback", "loop", "done", "linted", "raised"
    lint_imports,   \* lint-imports: "absent", "passes", "fails", "raises"
    src_dir_exists, \* Path("src").exists()
    tree_raises,    \* a file under src/ makes read_text or ast.parse raise
    graph,          \* module -> set of src.* modules it imports
    visited,
    rec_stack,
    cycles,         \* the list of recorded cycles
    frames,         \* the active calls of dfs: node, path, deps not yet iterated
    roots,          \* keys `for mod in graph` has not reached yet
    entered,        \* node -> number of calls of dfs on it
    result          \* the value check_with_ast_fallback returns

cycleVars == <<pc, lint_imports, src_dir_exists, tree_raises, graph, visited,
               rec_stack, cycles, frames, roots, entered, result>>

\* The file loop of check_type_holes.py (main, lines 94-99).
VARIABLES
    scan            \* the files to analyze, the results so far and the sums

\* check_hallucinations_pypi.py.
VARIABLES
    clock,          \* time.time(), in hours
    cache_file,     \* CACHE_FILE: missing, timestamp and packages, or not JSON
    fetched,        \* package -> clock value when check_pypi built its record
    pypi,           \* inputs and outcome of the run that has just ended
    inflight,       \* per invocation: its position, its dict, its verdicts
    started         \* the invocations started so far

registryVars == <<clock, cache_file, fetched, pypi, inflight, started>>

\* src/main.py.
VARIABLES
    app             \* main's position, _running, the registered handlers

\* check_silent_catches, verify_integration_pairing,
\* verify_behavioral_pairing.
VARIABLES
    gate            \* the script, the tree, its amnesty baseline, its runs

\* Invocations running at the same time.
VARIABLES
    procs,          \* per invocation: its script, inputs, position, result
    events          \* the reads, opens and writes of files, in order

parallelVars == <<procs, events>>

vars == <<job, fs, run, cycleVars, scan, registryVars, app, gate,
          parallelVars>>

\* What each family of actions leaves alone.
outsideBaselines == <<job, cycleVars, scan, registryVars,
    app, gate, parallelVars>>
outsideCycles == <<job, fs, run, scan, registryVars, app, gate, parallelVars>>
outsideScan == <<job, fs, run, cycleVars,
    registryVars, app, gate, parallelVars>>
outsideRegistry == <<job, fs, run, cycleVars, scan, app, gate, parallelVars>>
outsideMain == <<job, fs, run, cycleVars,
    scan, registryVars, gate, parallelVars>>
outsideParallel == <<job, run, cycleVars, scan, registryVars, app, gate>>
outsideGates == <<job, fs, run, cycleVars,
    scan, registryVars, app, parallelVars>>

\* ------------------------------------------------------------------ bounds

\* Largest violation total a scan reports.
MaxTotal == 2

\* ------------------------------------------------------- baseline documents

TYPE_SAFETY_BASELINE == "baselines/type-safety.json"
TYPE_HOLES_BASELINE == "baselines/type-holes.json"
CODE_HEALTH_BASELINE == "baselines/code-health-baseline.json"
GUARDRAILS_BASELINE == "baselines/guardrails-baseline.json"

\* A count baseline: the file is absent, holds the empty object {}, or holds
\* an object with a "total" (its other keys are breakdowns of the total and a
\* timestamp, which no script reads back).
AbsentDoc == [state |-> "absent", total |-> 0]
EmptyDoc == [state |-> "empty", total |-> 0]
TotalDoc(n) == [state |-> "total", total |-> n]

\* A baseline file whose content is not JSON, of `size` characters: a file
\* that open(path, "w") has cut to 0 bytes and whose text is not written
\* yet, the text two overlapping writers leave, or any other damaged file.
InvalidDoc(size) == [state |-> "invalid", total |-> 0, size |-> size]

\* json.loads(path.read_text()) raises JSONDecodeError on such a file.  The
\* load_baseline of check_type_safety, of check_type_holes and of
\* check_coverage_ratchet have no try around it.
json_loads_raises(doc) == doc.state = "invalid"

\* Python's None, as load_baseline of code_health_check / guardrails_check
\* returns it for a missing file.
NoneValue == [state |-> "none", total |-> 0]

\* Truth value of a loaded baseline: None and {} are falsy.
Truthy(d) == d.state = "total"

\* d.get("total", 0)
GetTotal(d) == IF d.state = "total" THEN d.total ELSE 0

\* Outcome of one invocation: exit code, document afterwards, and whether
\* save_baseline was called.
Outcome(code, doc, wrote) ==
    [exit |-> code, doc |-> doc, wrote |-> wrote, raised |-> FALSE]

\* An invocation left by an exception nothing catches: the interpreter
\* prints the traceback and exits with status 1; nothing was written.
Uncaught(doc) ==
    [exit |-> 1, doc |-> doc, wrote |-> FALSE, raised |-> TRUE]

\* ------------------------------------------------------ check_type_safety.py

\* count_holes: {"total": 0} when src/ is missing, else the number of
\* pattern matches over all files.
count_holes(srcExists, matches) ==
    IF ~srcExists THEN TotalDoc(0) ELSE TotalDoc(matches)

\* count_holes is left by an exception: raises says that py_file.read_text()
\* meets a file under src/ that is not valid UTF-8 (UnicodeDecodeError) or
\* that cannot be read (OSError); nothing in check_type_safety.py catches it.
count_holes_raises(srcExists, raises) == srcExists /\ raises

\* load_baseline of check_type_safety: {} when the file is missing.
ts_load_baseline(doc) == IF doc.state = "absent" THEN EmptyDoc ELSE doc

\* check_type_safety with the improvement branch leaving the file alone.
check_type_safety_never_lowers(doc, srcExists, raises, matches) ==
    LET current == count_holes(srcExists, matches)
        baseline == ts_load_baseline(doc)
    IN  IF count_holes_raises(srcExists, raises) THEN Uncaught(doc)
        ELSE IF json_loads_raises(doc) THEN Uncaught(doc)
        ELSE IF ~Truthy(baseline) THEN Outcome(0, current, TRUE)
        ELSE IF current.total > GetTotal(baseline) THEN Outcome(1, doc, FALSE)
        ELSE Outcome(0, doc, FALSE)

\* check_type_safety saving the count it blocks.
check_type_safety_saves_regression(doc, srcExists, raises, matches) ==
    LET current == count_holes(srcExists, matches)
        baseline == ts_load_baseline(doc)
    IN  IF count_holes_raises(srcExists, raises) THEN Uncaught(doc)
        ELSE IF json_loads_raises(doc) THEN Uncaught(doc)
        ELSE IF ~Truthy(baseline) THEN Outcome(0, current, TRUE)
        ELSE IF current.total > GetTotal(baseline) THEN Outcome(1, current, TRUE)
        ELSE IF current.total < GetTotal(baseline) THEN Outcome(0, current, TRUE)
        ELSE Outcome(0, doc, FALSE)

check_type_safety(doc, srcExists, raises, matches) ==
    LET current == count_holes(srcExists, matches)
        baseline == ts_load_baseline(doc)
    IN  IF count_holes_raises(srcExists, raises) THEN Uncaught(doc)
        ELSE IF json_loads_raises(doc) THEN Uncaught(doc)
        ELSE IF ~Truthy(baseline) THEN Outcome(0, current, TRUE)
        ELSE IF current.total > GetTotal(baseline) THEN Outcome(1, doc, FALSE)
        ELSE IF current.total < GetTotal(baseline) THEN Outcome(0, current, TRUE)
        ELSE Outcome(0, doc, FALSE)

\* ------------------------------------------------------- check_type_holes.py

\* find_python_files scanning the tree without looking whether SRC_DIR exists.
find_python_files_any_root(changed, listed, srcExists, inTree) ==
    IF changed = "some" THEN listed ELSE inTree

\* find_python_files: the listed paths that exist when the list is non-empty
\* (an empty list is falsy, like no list), else the tree under SRC_DIR.
\* Returns the number of files found.
find_python_files(changed, listed, srcExists, inTree) ==
    IF changed = "some" THEN listed
    ELSE IF ~srcExists THEN 0
    ELSE inTree

\* load_baseline of check_type_holes: {"total": 0} when the file is missing.
th_load_baseline(doc) == IF doc.state = "absent" THEN TotalDoc(0) ELSE doc

\* type_holes_main blocking only from the second added hole on.
type_holes_main_off_by_one(doc, nfiles, update, raises, total_ti, total_any) ==
    LET total == total_ti + total_any
        baseline_total == GetTotal(th_load_baseline(doc))
    IN  IF nfiles = 0 THEN Outcome(0, doc, FALSE)
        ELSE IF raises THEN Uncaught(doc)
        ELSE IF update THEN Outcome(0, TotalDoc(total), TRUE)
        ELSE IF json_loads_raises(doc) THEN Uncaught(doc)
        ELSE IF total > baseline_total + 1 THEN Outcome(1, doc, FALSE)
        ELSE Outcome(0, doc, FALSE)

\* main of check_type_holes.py: raises says that one of the files makes
\* analyze_file raise (Raised), which ends main in the file loop, before
\* the total, --update-baseline and load_baseline.  load_baseline is called
\* after the --update-baseline branch, and raises on a file that is not
\* JSON.
type_holes_main(doc, nfiles, update, raises, total_ti, total_any) ==
    LET total == total_ti + total_any
        baseline_total == GetTotal(th_load_baseline(doc))
    IN  IF nfiles = 0 THEN Outcome(0, doc, FALSE)
        ELSE IF raises THEN Uncaught(doc)
        ELSE IF update THEN Outcome(0, TotalDoc(total), TRUE)
        ELSE IF json_loads_raises(doc) THEN Uncaught(doc)
        ELSE IF total > baseline_total THEN Outcome(1, doc, FALSE)
        ELSE Outcome(0, doc, FALSE)

\* ------------------------------------- code_health_check.py, guardrails_check.py

\* load_baseline of code_health_check and of guardrails_check: None when the
\* file is missing, and None when reading or parsing it raises (except
\* Exception).
amnesty_load_baseline(doc) ==
    IF doc.state \in {"absent", "invalid"} THEN NoneValue ELSE doc

\* baseline["total"] if baseline else 0
amnesty_baseline_total(baseline) == IF Truthy(baseline) THEN baseline.total ELSE 0

\* get_all_files of code_health_check: [] when src_dir is missing.  Returns
\* the number of files found.
get_all_files(srcExists, inTree) == IF ~srcExists THEN 0 ELSE inTree

\* The main section of code_health_check.py: first and second are the orphan
\* files and the dead exports.  raises says that a file makes the scan
\* raise: build_import_graph and find_dead_exports catch SyntaxError and
\* UnicodeDecodeError, not the RecursionError or MemoryError of ast.parse on
\* deeply nested content, nor the OSError of read_text.
code_health_main(doc, nfiles, init, raises, first, second) ==
    LET total_violations == first + second
        baseline_total == amnesty_baseline_total(amnesty_load_baseline(doc))
    IN  IF nfiles = 0 THEN Outcome(0, doc, FALSE)
        ELSE IF raises THEN Uncaught(doc)
        ELSE IF init THEN Outcome(0, TotalDoc(total_violations), TRUE)
        ELSE IF total_violations > baseline_total THEN Outcome(1, doc, FALSE)
        ELSE IF total_violations < baseline_total
             THEN Outcome(0, TotalDoc(total_violations), TRUE)
        ELSE Outcome(0, doc, FALSE)

\* guardrails_main saving the current total whenever it differs.
guardrails_main_saves_any_change(doc, nfiles, init, raises, first, second) ==
    LET total_violations == first + second
        baseline_total == amnesty_baseline_total(amnesty_load_baseline(doc))
    IN  IF nfiles = 0 THEN Outcome(0, doc, FALSE)
        ELSE IF raises THEN Uncaught(doc)
        ELSE IF init THEN Outcome(0, TotalDoc(total_violations), TRUE)
        ELSE IF total_violations # baseline_total
             THEN Outcome(0, TotalDoc(total_violations), TRUE)
        ELSE Outcome(0, doc, FALSE)

\* The main section of guardrails_check.py: first and second are the file
\* violations and the function violations of the files scanned (the staged
\* files under --staged, else the tree).  raises says that a scanned file
\* makes the loop raise: extract_functions catches SyntaxError only, not
\* the RecursionError or MemoryError of ast.parse on deeply nested content,
\* and nothing catches the OSError of read_text.
guardrails_main(doc, nfiles, init, raises, first, second) ==
    LET total_violations == first + second
        baseline_total == amnesty_baseline_total(amnesty_load_baseline(doc))
    IN  IF nfiles = 0 THEN Outcome(0, doc, FALSE)
        ELSE IF raises THEN Uncaught(doc)
        ELSE IF init THEN Outcome(0, TotalDoc(total_violations), TRUE)
        ELSE IF total_violations > baseline_total THEN Outcome(1, doc, FALSE)
        ELSE IF total_violations < baseline_total
             THEN Outcome(0, TotalDoc(total_violations), TRUE)
        ELSE Outcome(0, doc, FALSE)

\* ------------------------------------------------ check_per_file_baseline.py

COVERAGE_BASELINE == "baselines/coverage-baseline.json"

\* In points.
DEFAULT_GLOBAL_MIN == 70
DEFAULT_NEW_FLOOR == 80
\* 0.2 points, in hundredths.
REGRESSION_TOLERANCE == 20

\* A number of points in hundredths.
Points(n) == n * 100

\* A dict with no keys.
EmptyMap == [f \in {} |-> 0]

\* A number of points in thousandths, the unit of the percent_covered values
\* of coverage.json here.
Thousandths(n) == n * 1000

\* Relative paths a coverage report names: files of the project that no
\* entry of EXCLUDE_PATTERNS matches, and one that "test_" and "tests/"
\* match.
SourcePaths == {"src/a.py", "src/b.py"}
ExcludedPaths == {"tests/test_a.py"}

\* An absolute path that is not below PROJECT_ROOT.
OutsidePath == "/opt/lib/c.py"

\* Raw percent_covered values of a report, in thousandths (none is a tie of
\* the rounding to two decimals).
RawFilePct == {79896, 80104, 80302}
RawGlobalPct == {69504, 75002}

\* In place of a percentage: the entry of the file has no "summary", or its
\* summary has no "percent_covered".
NoSummary == -1

\* round(pct, 2): thousandths to hundredths, to nearest.
Round2(raw) == (raw + 5) \div 10

\* coverage.json: the file is missing, its content is not JSON, or it
\* gives a total and a percentage for some paths.
MissingReport == [state |-> "missing", totals |-> 0, files |-> EmptyMap]
InvalidReport == [state |-> "invalid", totals |-> 0, files |-> EmptyMap]
Report(totals, files) == [state |-> "report", totals |-> totals, files |-> files]

\* The coverage reports check_per_file_baseline is run on: besides the
\* reports over the project's paths, some that name a file outside the
\* project by its absolute path, and one with an entry without a summary.
Reports ==
    {MissingReport, InvalidReport}
    \cup {Report(g, m) :
            g \in RawGlobalPct,
            m \in UNION {[S -> RawFilePct] : S \in SUBSET SourcePaths}
                  \cup UNION {[S \cup {"tests/test_a.py"} -> {79896}] :
                                S \in SUBSET SourcePaths}}
    \cup {Report(75002, m) :
            m \in UNION {[S \cup {OutsidePath} -> {79896}] :
                            S \in SUBSET SourcePaths}
                  \cup {[p \in {"src/a.py"} |-> NoSummary]}}

\* The per-file baseline: missing, the empty object, or global_coverage with
\* a dict of files (and a timestamp nothing reads).
PfAbsentDoc == [state |-> "absent", global_coverage |-> 0, files |-> EmptyMap]
PfEmptyDoc == [state |-> "empty", global_coverage |-> 0, files |-> EmptyMap]
PfDoc(global, files) == [state |-> "doc", global_coverage |-> global, files |-> files]

\* The file holds text that is not JSON: load_baseline of
\* check_per_file_baseline catches the exception and returns None.
PfInvalidDoc == [state |-> "invalid", global_coverage |-> 0, files |-> EmptyMap]

\* What sys.argv holds for --global-min or --new-floor: the option is not
\* there, it is followed by a number of points, or it is followed by
\* nothing or by a word float() does not take.
NoOption == [given |-> FALSE, valid |-> TRUE, value |-> 0]
Option(v) == [given |-> TRUE, valid |-> TRUE, value |-> v]
BadOption == [given |-> TRUE, valid |-> FALSE, value |-> 0]

GlobalMinOptions == {NoOption, BadOption} \cup {Option(v) : v \in {60, 80}}
NewFloorOptions == {NoOption, BadOption} \cup {Option(v) : v \in {70, 90}}

\* The command lines tried: one of the two options or none, and both with a
\* number each.
ThresholdOptions ==
    {o \in GlobalMinOptions \X NewFloorOptions :
        o[1] = NoOption \/ o[2] = NoOption}
    \cup {<<Option(60), Option(90)>>, <<Option(80), Option(70)>>}

\* args[idx + 1] raises IndexError, float() raises ValueError.
parse_args_raises(global_min, new_floor) ==
    ~global_min.valid \/ ~new_floor.valid

parse_args(init, global_min, new_floor) ==
    [init |-> init,
     global_min |-> IF global_min.given THEN global_min.value
                    ELSE DEFAULT_GLOBAL_MIN,
     new_floor |-> IF new_floor.given THEN new_floor.value
                   ELSE DEFAULT_NEW_FLOOR,
     tolerance |-> REGRESSION_TOLERANCE]

\* re.search of some entry of EXCLUDE_PATTERNS finds a match in the path.
\* None matches src/a.py, src/b.py or /opt/lib/c.py.
is_excluded(path) == path \in ExcludedPaths

\* Path(filepath).relative_to(PROJECT_ROOT) raises ValueError for an
\* absolute path that is not below PROJECT_ROOT; it is evaluated for every
\* absolute path of the report, before is_excluded.
get_file_coverage_raises(files) == OutsidePath \in DOMAIN files

\* get_file_coverage, when it does not raise: the non-excluded files of the
\* report, rounded; 0 for an entry without summary or percent_covered.
get_file_coverage(files) ==
    [p \in {q \in DOMAIN files : ~is_excluded(q)} |->
        IF files[p] = NoSummary THEN 0 ELSE Round2(files[p])]

\* What the report says of the files it names by a relative path: the
\* snapshot get_file_coverage returns, and when it raises, the one it would
\* return without the entries that make it raise.
report_coverage(files) ==
    get_file_coverage([p \in {q \in DOMAIN files : q # OutsidePath} |-> files[p]])

\* Pairs (baseline_pct, current_pct) of rounded report values exactly 0.20
\* apart whose difference, subtracted as doubles, is above the double 0.2:
\* 80.3 - 80.1 is 0.20000000000000284, 80.1 - 79.9 is 0.19999999999998863.
DoubleDiffAboveTolerance == {<<8030, 8010>>}

\* drop_exceeds with the tolerance doubled.
drop_exceeds_double_tolerance(baseline_pct, current_pct, tolerance) ==
    baseline_pct - current_pct > 2 * tolerance

\* drop = baseline_pct - current_pct; drop > config["tolerance"], on doubles.
drop_exceeds(baseline_pct, current_pct, tolerance) ==
    \/ baseline_pct - current_pct > tolerance
    \/ /\ baseline_pct - current_pct = tolerance
       /\ <<baseline_pct, current_pct>> \in DoubleDiffAboveTolerance

\* baseline and baseline.get("files")
has_tracked_files(doc) == doc.state = "doc" /\ DOMAIN doc.files # {}

\* CHECK 1: the global minimum.
pf_global_violations(config, global_coverage) ==
    IF global_coverage < Points(config.global_min)
    THEN {[type |-> "global", file |-> ""]} ELSE {}

\* CHECK 2, the loop body: a file with no baseline entry against the floor,
\* a file with one against its baseline value.
pf_file_violations(files, config, file_coverages) ==
    {[type |-> "new-file", file |-> p] : p \in
        {q \in DOMAIN file_coverages :
            q \notin DOMAIN files /\ file_coverages[q] < Points(config.new_floor)}}
    \cup {[type |-> "regression", file |-> p] : p \in
        {q \in DOMAIN file_coverages :
            /\ q \in DOMAIN files
            /\ drop_exceeds(files[q], file_coverages[q], config.tolerance)}}

\* CHECK 1 and CHECK 2: the violations of a run, as (type, file) records.
\* CHECK 2 runs only against a baseline that tracks at least one file.
pf_violations(doc, config, global_coverage, file_coverages) ==
    pf_global_violations(config, global_coverage)
    \cup IF has_tracked_files(doc)
         THEN pf_file_violations(doc.files, config, file_coverages)
         ELSE {}

\* pf_ratchet_files leaving every tracked value as it was.
pf_ratchet_files_keeps_baseline(files, file_coverages) ==
    [p \in DOMAIN files \cup DOMAIN file_coverages |->
        IF p \in DOMAIN files THEN files[p] ELSE file_coverages[p]]

\* The ratchet of a passing run: new files and risen files take the current
\* value, every other entry is kept.
pf_ratchet_files(files, file_coverages) ==
    [p \in DOMAIN files \cup DOMAIN file_coverages |->
        IF p \in DOMAIN file_coverages
           /\ (p \notin DOMAIN files \/ file_coverages[p] > files[p])
        THEN file_coverages[p] ELSE files[p]]

PfOutcome(code, doc, wrote, violations) ==
    [exit |-> code, doc |-> doc, wrote |-> wrote, violations |-> violations,
     raised |-> FALSE]

\* The run is left by an exception nothing catches, in parse_args, in
\* load_coverage or in get_file_coverage: traceback, exit status 1.
PfUncaught(doc) ==
    [exit |-> 1, doc |-> doc, wrote |-> FALSE, violations |-> {},
     raised |-> TRUE]

\* The main section of check_per_file_baseline.py: parse_args, load_coverage
\* (exit 1 without coverage.json, JSONDecodeError when it is not JSON),
\* get_file_coverage, then --init, else load_baseline and the two checks.
per_file_main(doc, init, global_min, new_floor, report) ==
    LET config == parse_args(init, global_min, new_floor)
        global_coverage == Round2(report.totals)
        file_coverages == get_file_coverage(report.files)
        violations == pf_violations(doc, config, global_coverage, file_coverages)
        new_files == pf_ratchet_files(doc.files, file_coverages)
        improved == \E p \in DOMAIN file_coverages :
                        p \notin DOMAIN doc.files \/ file_coverages[p] > doc.files[p]
    IN  IF parse_args_raises(global_min, new_floor) THEN PfUncaught(doc)
        ELSE IF report.state = "missing" THEN PfOutcome(1, doc, FALSE, {})
        ELSE IF report.state = "invalid" THEN PfUncaught(doc)
        ELSE IF get_file_coverage_raises(report.files) THEN PfUncaught(doc)
        ELSE IF config.init
             THEN PfOutcome(0, PfDoc(global_coverage, file_coverages), TRUE, {})
        ELSE IF violations # {} THEN PfOutcome(1, doc, FALSE, violations)
        ELSE IF has_tracked_files(doc) /\ improved
             THEN PfOutcome(0, PfDoc(global_coverage, new_files), TRUE, {})
        ELSE PfOutcome(0, doc, FALSE, {})

\* ------------------------------------------------- check_coverage_ratchet.py

COVERAGE_RATCHET_BASELINE == "baselines/coverage.json"

\* In points.
COVERAGE_THRESHOLD == 80

\* percent_covered values of the reports check_coverage_ratchet is run on,
\* in thousandths.
RatchetPct == {74000, 79000, 80000, 85000}

\* The files of those reports: a dict over some of the files.
CoverageMaps ==
    UNION {[S -> RatchetPct] : S \in SUBSET SourcePaths}

\* coverage.json as the pytest subprocess of run_coverage leaves it.
RatchetReports ==
    {MissingReport, InvalidReport}
    \cup {Report(75002, m) : m \in CoverageMaps}
    \cup {Report(75002, [p \in {"src/a.py"} |-> NoSummary])}

\* run_coverage is left by an exception: subprocess.run raises
\* FileNotFoundError when no executable named python is found, json.loads
\* raises on a coverage.json that is not JSON, and
\* info["summary"]["percent_covered"] raises KeyError on an entry without
\* one.
run_coverage_raises(python, report) ==
    \/ ~python
    \/ report.state = "invalid"
    \/ \E p \in DOMAIN report.files : report.files[p] = NoSummary

\* run_coverage: {} when coverage.json is missing, else the percentage of
\* every file of the report, under the path the report gives and as the
\* report gives it (no rounding, no exclusion).
run_coverage(report) ==
    IF report.state = "missing" THEN EmptyMap ELSE report.files

\* The flat baseline dict of check_coverage_ratchet: missing file, a dict, or
\* text that is not JSON.
CrAbsentDoc == [state |-> "absent", files |-> EmptyMap]
CrDoc(files) == [state |-> "doc", files |-> files]
CrInvalidDoc == [state |-> "invalid", files |-> EmptyMap]

\* load_baseline of check_coverage_ratchet: {} when the file is missing.
cr_load_baseline(doc) == doc.files

Max(a, b) == IF a >= b THEN a ELSE b

\* cr_violations with the floor itself rejected.
cr_violations_floor_excluded(baseline, coverage) ==
    {p \in DOMAIN coverage :
        p \notin DOMAIN baseline /\ coverage[p] <= Thousandths(COVERAGE_THRESHOLD)}

\* The new files below COVERAGE_THRESHOLD.
cr_violations(baseline, coverage) ==
    {p \in DOMAIN coverage :
        p \notin DOMAIN baseline /\ coverage[p] < Thousandths(COVERAGE_THRESHOLD)}

\* A drop of more than 5 points is printed as WARN and counted nowhere.
cr_warnings(baseline, coverage) ==
    {p \in DOMAIN coverage :
        p \in DOMAIN baseline /\ coverage[p] < baseline[p] - Thousandths(5)}

\* cr_updated storing the current value over the baseline value.
cr_updated_overwrites(baseline, coverage) ==
    [p \in DOMAIN baseline \cup DOMAIN coverage |->
        IF p \in DOMAIN coverage THEN coverage[p] ELSE baseline[p]]

\* {**baseline, **{k: max(v, baseline.get(k, 0)) for k, v in coverage.items()}}
cr_updated(baseline, coverage) ==
    [p \in DOMAIN baseline \cup DOMAIN coverage |->
        IF p \in DOMAIN coverage
        THEN Max(coverage[p], IF p \in DOMAIN baseline THEN baseline[p] ELSE 0)
        ELSE baseline[p]]

CrOutcome(code, doc, wrote, violations, warnings) ==
    [exit |-> code, doc |-> doc, wrote |-> wrote, violations |-> violations,
     warnings |-> warnings, raised |-> FALSE]

\* run_coverage or load_baseline left by an exception nothing catches:
\* traceback, exit status 1, nothing written.
CrUncaught(doc) ==
    [exit |-> 1, doc |-> doc, wrote |-> FALSE, violations |-> {},
     warnings |-> {}, raised |-> TRUE]

\* check_coverage_ratchet holding the first run to the new-file threshold.
check_coverage_ratchet_no_first_run(doc, python, report) ==
    LET coverage == run_coverage(report)
        baseline == cr_load_baseline(doc)
        violations == cr_violations(baseline, coverage)
        warnings == cr_warnings(baseline, coverage)
    IN  IF run_coverage_raises(python, report) THEN CrUncaught(doc)
        ELSE IF DOMAIN coverage = {} THEN CrOutcome(0, doc, FALSE, {}, {})
        ELSE IF json_loads_raises(doc) THEN CrUncaught(doc)
        ELSE IF violations # {}
             THEN CrOutcome(1, doc, FALSE, violations, warnings)
        ELSE CrOutcome(0, CrDoc(cr_updated(baseline, coverage)), TRUE, {}, warnings)

\* check_coverage_ratchet: python says that subprocess.run finds the
\* executable, report is coverage.json as the subprocess leaves it.
\* run_coverage comes first; load_baseline is reached with a non-empty
\* coverage only.
check_coverage_ratchet(doc, python, report) ==
    LET coverage == run_coverage(report)
        baseline == cr_load_baseline(doc)
        violations == cr_violations(baseline, coverage)
        warnings == cr_warnings(baseline, coverage)
    IN  IF run_coverage_raises(python, report) THEN CrUncaught(doc)
        ELSE IF DOMAIN coverage = {} THEN CrOutcome(0, doc, FALSE, {}, {})
        ELSE IF json_loads_raises(doc) THEN CrUncaught(doc)
        ELSE IF DOMAIN baseline = {}
             THEN CrOutcome(0, CrDoc(coverage), TRUE, {}, {})
        ELSE IF violations # {}
             THEN CrOutcome(1, doc, FALSE, violations, warnings)
        ELSE CrOutcome(0, CrDoc(cr_updated(baseline, coverage)), TRUE, {}, warnings)

\* ------------------------------------------------------------------ actions

CountJobs == {"check_type_safety", "check_type_holes", "code_health_check",
              "guardrails_check"}

Jobs == CountJobs \cup {"check_per_file_baseline", "check_coverage_ratchet"}

BaselinePath(j) ==
    CASE j = "check_type_safety" -> TYPE_SAFETY_BASELINE
      [] j = "check_type_holes" -> TYPE_HOLES_BASELINE
      [] j = "code_health_check" -> CODE_HEALTH_BASELINE
      [] j = "guardrails_check" -> GUARDRAILS_BASELINE
      [] j = "check_per_file_baseline" -> COVERAGE_BASELINE
      [] j = "check_coverage_ratchet" -> COVERAGE_RATCHET_BASELINE

Paths == {BaselinePath(j) : j \in Jobs}

\* The record of a count-ratchet invocation.  flag is --init or
\* --update-baseline; partial says the scan was restricted to a file list
\* (--changed-files with paths, --staged); scanned says that the scan found
\* files, so that a current total was computed; cur is that total; raised
\* says that the scan was left by an exception, and then no total was
\* computed.
CountRun(check, flag, partial, scanned, cur, before, out) ==
    [check |-> check, flag |-> flag, partial |-> partial,
     scanned |-> scanned /\ ~out.raised,
     cur |-> IF out.raised THEN 0 ELSE cur, before |-> before,
     exit |-> out.exit, wrote |-> out.wrote, raised |-> out.raised]

\* The record of a coverage invocation.  cur is the per-file snapshot of
\* the report the run was given (file_coverages, coverage); reported says
\* that the run computed it; new_floor is the floor it applied to new files,
\* in points.
CoverageRun(check, flag, new_floor, reported, cur, before, out) ==
    [check |-> check, flag |-> flag, new_floor |-> new_floor,
     reported |-> reported /\ ~out.raised,
     cur |-> cur,
     before |-> before, exit |-> out.exit, wrote |-> out.wrote,
     violations |-> out.violations, raised |-> out.raised]

\* The record of a run of a script that scans SRC_DIR, with whether the
\* directory existed.
WithRoot(record, srcExists) ==
    [f \in DOMAIN record \cup {"root"} |->
        IF f = "root" THEN srcExists ELSE record[f]]

\* The record of a run of guardrails_check, with the number of violations a
\* scan of the whole of SRC_DIR finds in the tree the run works on.
WithTree(record, tree) ==
    [f \in DOMAIN record \cup {"tree"} |->
        IF f = "tree" THEN tree ELSE record[f]]

\* The record of a run of check_type_holes, with what --changed-files was.
WithChanged(record, changed) ==
    [f \in DOMAIN record \cup {"changed"} |->
        IF f = "changed" THEN changed ELSE record[f]]

Commit(path, out, record) ==
    /\ fs' = [fs EXCEPT ![path] = out.doc]
    /\ run' = record
    /\ UNCHANGED outsideBaselines

RunTypeSafety ==
    /\ job = "check_type_safety"
    /\ \E srcExists \in BOOLEAN, raises \in BOOLEAN, matches \in 0..MaxTotal :
        LET before == fs[TYPE_SAFETY_BASELINE]
            out == check_type_safety(before, srcExists, raises, matches)
        IN  Commit(TYPE_SAFETY_BASELINE, out,
                   WithRoot(CountRun("check_type_safety", FALSE, FALSE, TRUE,
                                     count_holes(srcExists, matches).total,
                                     before, out),
                            srcExists))

RunTypeHoles ==
    /\ job = "check_type_holes"
    /\ \E changed \in {"none", "empty", "some"}, listed \in 0..1,
          srcExists \in BOOLEAN, inTree \in 0..1, update \in BOOLEAN,
          raises \in BOOLEAN,
          total_ti \in 0..MaxTotal, total_any \in 0..MaxTotal :
        /\ total_ti + total_any <= MaxTotal
        /\ LET before == fs[TYPE_HOLES_BASELINE]
               nfiles == find_python_files(changed, listed, srcExists, inTree)
               out == type_holes_main(before, nfiles, update, raises,
                                      total_ti, total_any)
           IN  Commit(TYPE_HOLES_BASELINE, out,
                      WithChanged(
                          WithRoot(CountRun("check_type_holes", update,
                                            changed = "some", nfiles > 0,
                                            total_ti + total_any, before, out),
                                   srcExists),
                          changed))

RunCodeHealth ==
    /\ job = "code_health_check"
    /\ \E srcExists \in BOOLEAN, inTree \in 0..1, init \in BOOLEAN,
          raises \in BOOLEAN,
          orphan_files \in 0..MaxTotal, dead_exports \in 0..MaxTotal :
        /\ orphan_files + dead_exports <= MaxTotal
        /\ LET before == fs[CODE_HEALTH_BASELINE]
               nfiles == get_all_files(srcExists, inTree)
               out == code_health_main(before, nfiles, init, raises,
                                       orphan_files, dead_exports)
           IN  Commit(CODE_HEALTH_BASELINE, out,
                      WithRoot(CountRun("code_health_check", init, FALSE,
                                        nfiles > 0,
                                        orphan_files + dead_exports, before,
                                        out),
                               srcExists))

RunGuardrails ==
    /\ job = "guardrails_check"
    /\ \E staged \in BOOLEAN, nfiles \in 0..1, init \in BOOLEAN,
          raises \in BOOLEAN,
          file_violations \in 0..MaxTotal, func_violations \in 0..MaxTotal,
          tree \in 0..MaxTotal :
        /\ file_violations + func_violations <= MaxTotal
        \* A full scan counts the files under SRC_DIR; the staged files are
        \* any .py files of the project, under SRC_DIR or not.
        /\ (staged \/ raises) \/ file_violations + func_violations = tree
        /\ LET before == fs[GUARDRAILS_BASELINE]
               out == guardrails_main(before, nfiles, init, raises,
                                      file_violations, func_violations)
           IN  Commit(GUARDRAILS_BASELINE, out,
                      WithTree(CountRun("guardrails_check", init, staged,
                                        nfiles > 0,
                                        file_violations + func_violations,
                                        before, out),
                               tree))

RunPerFileBaseline ==
    /\ job = "check_per_file_baseline"
    /\ \E init \in BOOLEAN, options \in ThresholdOptions, report \in Reports :
        LET global_min == options[1]
            new_floor == options[2]
            before == fs[COVERAGE_BASELINE]
            config == parse_args(init, global_min, new_floor)
            out == per_file_main(before, init, global_min, new_floor, report)
        IN  Commit(COVERAGE_BASELINE, out,
                   CoverageRun("check_per_file_baseline", init,
                               config.new_floor,
                               report.state = "report",
                               report_coverage(report.files), before, out))

RunCoverageRatchet ==
    /\ job = "check_coverage_ratchet"
    /\ \E python \in BOOLEAN, report \in RatchetReports :
        LET before == fs[COVERAGE_RATCHET_BASELINE]
            out == check_coverage_ratchet(before, python, report)
            coverage == IF out.raised THEN EmptyMap ELSE run_coverage(report)
        IN  Commit(COVERAGE_RATCHET_BASELINE, out,
                   CoverageRun("check_coverage_ratchet", FALSE,
                               COVERAGE_THRESHOLD,
                               DOMAIN coverage # {}, coverage, before, out))

NoRun == [check |-> "none"]

\* A missing baseline file, the file holding the empty object {}, and the
\* file holding text that is not JSON.
InvalidFile(j) ==
    CASE j \in CountJobs -> InvalidDoc(0)
      [] j = "check_per_file_baseline" -> PfInvalidDoc
      [] j = "check_coverage_ratchet" -> CrInvalidDoc

MissingFile(j) ==
    CASE j \in CountJobs -> AbsentDoc
      [] j = "check_per_file_baseline" -> PfAbsentDoc
      [] j = "check_coverage_ratchet" -> CrAbsentDoc

EmptyObject(j) ==
    CASE j \in CountJobs -> EmptyDoc
      [] j = "check_per_file_baseline" -> PfEmptyDoc
      [] j = "check_coverage_ratchet" -> CrDoc(EmptyMap)

\* No baseline file exists.
NoBaselines ==
    [p \in Paths |-> MissingFile(CHOOSE j \in Jobs : BaselinePath(j) = p)]

\* check_with_ast_fallback has not returned.
NotReturned == "none"

\* check_circular_deps is not the script of this behaviour.
CycleCheckIdle ==
    /\ pc = "idle"
    /\ lint_imports = "absent"
    /\ src_dir_exists = TRUE
    /\ tree_raises = FALSE
    /\ graph = <<>>
    /\ visited = {}
    /\ rec_stack = {}
    /\ cycles = <<>>
    /\ frames = <<>>
    /\ roots = {}
    /\ entered = <<>>
    /\ result = NotReturned

\* The file loop of check_type_holes is not followed in this behaviour.
ScanIdle == scan = [state |-> "idle"]

\* check_hallucinations_pypi is not the script of this behaviour.
RegistryIdle ==
    /\ clock = 0
    /\ cache_file = [state |-> "absent"]
    /\ fetched = <<>>
    /\ pypi = NoRun
    /\ inflight = [p \in {1, 2} |-> [pc |-> "idle"]]
    /\ started = 0

\* One invocation at a time.
ParallelIdle == procs = <<>> /\ events = <<>>

\* None of the three gate scripts is the script of this behaviour.
GateIdle == gate = [check |-> "idle"]

\* src/main.py is not the program of this behaviour.
MainIdle == app = [pc |-> "idle"]

\* Before the first invocation the job's baseline file is missing, holds an
\* empty object or holds text that is not JSON; the other checks' files are
\* missing and stay so.
Init ==
    /\ job \in Jobs
    /\ \E d \in {MissingFile(job), EmptyObject(job), InvalidFile(job)} :
        fs = [p \in Paths |->
                IF p = BaselinePath(job) THEN d
                ELSE MissingFile(CHOOSE j \in Jobs : BaselinePath(j) = p)]
    /\ run = NoRun
    /\ CycleCheckIdle
    /\ ScanIdle
    /\ RegistryIdle
    /\ MainIdle
    /\ GateIdle
    /\ ParallelIdle

Next ==
    \/ RunTypeSafety
    \/ RunTypeHoles
    \/ RunCodeHealth
    \/ RunGuardrails
    \/ RunPerFileBaseline
    \/ RunCoverageRatchet

Spec == Init /\ [][Next]_vars

\* ------------------------------------------- check_type_holes.py: analyze_file

\* Most files of one scan, and most matches of one kind in one file.
MaxFiles == 2
MaxPerFile == 1

\* What analyze_file meets in a file: whether read_text succeeds, whether
\* ast.parse accepts the content, the matches of TYPE_IGNORE_RE in the
\* content, and the names `Any` in it (the Name nodes with id "Any" when the
\* content parses), and whether the content nests deeper than the
\* interpreter takes, so that ast.parse or the visitor raises RecursionError
\* or MemoryError.
FileFacts ==
    {f \in [readable : BOOLEAN, parses : BOOLEAN, deep : BOOLEAN,
            type_ignores : 0..MaxPerFile, any_names : 0..MaxPerFile] :
        f.deep => f.readable}

FileLists ==
    UNION {[1..n -> FileFacts] : n \in 0..MaxFiles}

\* analyze_file left by an exception it does not catch.
Raised == [raised |-> TRUE]

\* analyze_file: the comments are counted in the text before ast.parse is
\* tried; a SyntaxError zeroes the Any count only; `except SyntaxError`
\* lets RecursionError and MemoryError through.
analyze_file(file) ==
    IF ~file.readable
    THEN [type_ignore |-> 0, any |-> 0, total |-> 0]
    ELSE IF file.deep THEN Raised
    ELSE LET ti_count == file.type_ignores
             any_count == IF file.parses THEN file.any_names ELSE 0
         IN  [type_ignore |-> ti_count, any |-> any_count,
              total |-> ti_count + any_count]

\* main reaches its loop with the files find_python_files returned.
InitScan ==
    /\ job = "check_type_holes"
    /\ fs = NoBaselines
    /\ run = NoRun
    /\ CycleCheckIdle
    /\ RegistryIdle
    /\ MainIdle
    /\ GateIdle
    /\ ParallelIdle
    /\ \E files \in FileLists :
        /\ files # <<>>
        /\ scan = [state |-> "loop", files |-> files, results |-> <<>>,
                   total_ti |-> 0, total_any |-> 0, total |-> 0]

\* One iteration of `for f in files` (lines 95-98); an exception out of
\* analyze_file ends main with a traceback, exit status 1.
AnalyzeNextFile ==
    /\ scan.state = "loop"
    /\ Len(scan.results) < Len(scan.files)
    /\ LET analyzed == analyze_file(scan.files[Len(scan.results) + 1])
       IN  IF analyzed = Raised
           THEN scan' = [scan EXCEPT !.state = "crashed"]
           ELSE scan' = [scan EXCEPT !.results = Append(@, analyzed),
                                     !.total_ti = @ + analyzed.type_ignore,
                                     !.total_any = @ + analyzed.any]
    /\ UNCHANGED outsideScan

\* Line 99, after the last file.
SumHoles ==
    /\ scan.state = "loop"
    /\ Len(scan.results) = Len(scan.files)
    /\ scan' = [scan EXCEPT !.state = "summed",
                            !.total = scan.total_ti + scan.total_any]
    /\ UNCHANGED outsideScan

NextScan ==
    \/ AnalyzeNextFile
    \/ SumHoles

SpecScan == InitScan /\ [][NextScan]_vars

\* ----------------------------------------------------- check_circular_deps.py

\* Modules of the project: src/a.py is src.a.
Modules == {"src.a", "src.b", "src.c"}

\* The graphs lines 43-57 build: a key for every file under src/, mapped to
\* the src.* names it imports; an imported name need not be a key.
Graphs ==
    UNION {[K -> SUBSET Modules] : K \in SUBSET Modules}

\* graph.get(node, [])
graph_get(node) ==
    IF node \in DOMAIN graph THEN graph[node] ELSE {}

\* path.index(dep)
index(path, dep) ==
    CHOOSE i \in 1..Len(path) :
        path[i] = dep /\ \A j \in 1..(i - 1) : path[j] # dep

\* found_cycle recording the whole path from the root of the traversal.
found_cycle_whole_path(path, dep) ==
    path \o <<dep>>

\* found_cycle leaving the cycle open: the repeated node is not appended.
found_cycle_open(path, dep) ==
    SubSeq(path, index(path, dep), Len(path))

\* cycle = path[path.index(dep):] + [dep]
found_cycle(path, dep) ==
    SubSeq(path, index(path, dep), Len(path)) \o <<dep>>

\* The first two statements of dfs and the start of its loop.
call_dfs(node, path, below) ==
    /\ visited' = visited \cup {node}
    /\ rec_stack' = rec_stack \cup {node}
    /\ frames' = Append(below, [node |-> node, path |-> path,
                                todo |-> graph_get(node)])
    /\ entered' = [entered EXCEPT ![node] = @ + 1]

\* must_visit never descending into a dependency.
must_visit_never(dep) == FALSE

\* must_visit without the visited set.
must_visit_always(dep) == TRUE

\* A dependency is skipped when dfs has been called on it.
must_visit(dep) == dep \notin visited

\* The inputs of one invocation: what main finds on PATH and under src/.
cycleInputs == <<lint_imports, src_dir_exists, tree_raises, graph>>

\* main when `lint-imports --version` succeeds: check_with_import_linter
\* runs lint-imports and returns 1 when its return code is not 0, else 0,
\* and check_with_ast_fallback is not called (sys.exit raises SystemExit,
\* which `except (FileNotFoundError, Exception)` does not catch).  When
\* check_with_import_linter raises instead (run does not find or cannot
\* start the program, or cannot decode its output), that except clause
\* catches the exception and main goes on to check_with_ast_fallback.
CheckWithImportLinter ==
    /\ job = "check_circular_deps"
    /\ pc = "start"
    /\ lint_imports # "absent"
    /\ pc' = IF lint_imports = "raises" THEN "fallback" ELSE "linted"
    /\ result' = CASE lint_imports = "fails" -> 1
                   [] lint_imports = "passes" -> 0
                   [] OTHER -> result
    /\ UNCHANGED <<outsideCycles, cycleInputs, visited, rec_stack, cycles,
                   frames, roots, entered>>

\* main when lint-imports is not there or its --version fails, or when
\* check_with_import_linter has raised: lines 36-40 of
\* check_with_ast_fallback, and the graph built when src/ exists.  A file
\* that is not valid UTF-8 (UnicodeDecodeError is a ValueError) or nests too
\* deeply for ast.parse (RecursionError, MemoryError) gets past
\* `except (OSError, SyntaxError)`: the script ends with a traceback and
\* exit status 1, and check_with_ast_fallback returns nothing.
StartCycleCheck ==
    /\ job = "check_circular_deps"
    /\ \/ pc = "start" /\ lint_imports = "absent"
       \/ pc = "fallback"
    /\ IF ~src_dir_exists
       THEN /\ pc' = "done"
            /\ roots' = roots
            /\ result' = 0
       ELSE IF tree_raises
       THEN /\ pc' = "raised"
            /\ roots' = roots
            /\ result' = result
       ELSE /\ pc' = "loop"
            /\ roots' = DOMAIN graph
            /\ result' = result
    /\ UNCHANGED <<outsideCycles, cycleInputs, visited, rec_stack,
                   cycles, frames, entered>>

\* One iteration of `for mod in graph`, in some dict order.
LaunchDfs ==
    /\ pc = "loop"
    /\ frames = <<>>
    /\ \E mod \in roots :
        /\ roots' = roots \ {mod}
        /\ IF mod \notin visited
           THEN call_dfs(mod, <<mod>>, frames)
           ELSE UNCHANGED <<visited, rec_stack, frames, entered>>
    /\ UNCHANGED <<outsideCycles, pc, cycleInputs, cycles, result>>

\* One iteration of `for dep in graph.get(node, [])`, in some set order.
VisitDep ==
    /\ pc = "loop"
    /\ frames # <<>>
    /\ LET top == frames[Len(frames)]
       IN  \E dep \in top.todo :
            LET rest == [frames EXCEPT ![Len(frames)].todo = @ \ {dep}]
            IN  IF dep \in rec_stack
                THEN /\ cycles' = Append(cycles, found_cycle(top.path, dep))
                     /\ frames' = rest
                     /\ UNCHANGED <<visited, rec_stack, entered>>
                ELSE IF must_visit(dep)
                THEN /\ call_dfs(dep, top.path \o <<dep>>, rest)
                     /\ cycles' = cycles
                ELSE /\ frames' = rest
                     /\ UNCHANGED <<visited, rec_stack, cycles, entered>>
    /\ UNCHANGED <<outsideCycles, pc, cycleInputs, roots, result>>

\* The end of dfs's loop: rec_stack.discard(node) and the return.
ReturnDfs ==
    /\ pc = "loop"
    /\ frames # <<>>
    /\ frames[Len(frames)].todo = {}
    /\ rec_stack' = rec_stack \ {frames[Len(frames)].node}
    /\ frames' = SubSeq(frames, 1, Len(frames) - 1)
    /\ UNCHANGED <<outsideCycles, pc, cycleInputs, visited, cycles,
                   roots, entered, result>>

\* Lines 78-85.
FinishCycleCheck ==
    /\ pc = "loop"
    /\ frames = <<>>
    /\ roots = {}
    /\ pc' = "done"
    /\ result' = IF cycles # <<>> THEN 1 ELSE 0
    /\ UNCHANGED <<outsideCycles, cycleInputs, visited, rec_stack,
                   cycles, frames, roots, entered>>

\* check_circular_deps is invoked once, on some source tree, with or without
\* a lint-imports program on PATH.  graph is what the files of the tree that
\* parse import; it is built only when none of them raises.
InitCycles ==
    /\ job = "check_circular_deps"
    /\ fs = NoBaselines
    /\ run = NoRun
    /\ pc = "start"
    /\ lint_imports \in {"absent", "passes", "fails", "raises"}
    /\ src_dir_exists \in BOOLEAN
    /\ tree_raises \in (IF src_dir_exists THEN BOOLEAN ELSE {FALSE})
    /\ graph \in (IF src_dir_exists THEN Graphs ELSE {<<>>})
    /\ visited = {}
    /\ rec_stack = {}
    /\ cycles = <<>>
    /\ frames = <<>>
    /\ roots = {}
    /\ entered = [m \in Modules |-> 0]
    /\ result = NotReturned
    /\ ScanIdle
    /\ RegistryIdle
    /\ MainIdle
    /\ GateIdle
    /\ ParallelIdle

NextCycles ==
    \/ CheckWithImportLinter
    \/ StartCycleCheck
    \/ LaunchDfs
    \/ VisitDep
    \/ ReturnDfs
    \/ FinishCycleCheck

\* The script is a sequential process: while it has a next statement it
\* executes it.
SpecCycles == InitCycles /\ [][NextCycles]_vars /\ WF_vars(NextCycles)

\* ----------------------------------------------- check_hallucinations_pypi.py

MIN_DAYS_OLD == 30

\* The cache lifetime of load_cache, 86400 seconds, in hours.
CACHE_HOURS == 24

\* Names of TRUSTED_PACKAGES that requirements.txt uses, and other names.
TRUSTED_PACKAGES == {"requests"}
OtherPackages == {"reqeusts", "fastjsonx"}
PackageNames == TRUSTED_PACKAGES \cup OtherPackages

\* Most lines of requirements.txt that name a package.
MaxRequirements == 2

\* The results of parse_requirements: lower-case names in file order, a name
\* possibly twice; empty when the file is missing or names nothing.
Requirements ==
    UNION {[1..n -> PackageNames] : n \in 0..MaxRequirements}

\* The results of load_exemptions.
Exemptions == {{}, {"fastjsonx"}}

\* Instants at which the script is run, in hours.
ClockValues == {0, 16, 32}

\* What urlopen does for one package: a document whose first release is
\* 29 or 30 days old, or an HTTPError (404, 500), or a timeout (URLError).
Responses ==
    {[kind |-> "ok", age |-> 29], [kind |-> "ok", age |-> 30],
     [kind |-> "http", code |-> 404], [kind |-> "http", code |-> 500],
     [kind |-> "timeout"]}

FailedLookup(response) ==
    response.kind = "timeout" \/ (response.kind = "http" /\ response.code # 404)

\* The records of check_pypi, without the display name.
PackageInfo(exists, age_days) == [exists |-> exists, age_days |-> age_days]

\* check_pypi treating a failed lookup as a missing package.
check_pypi_fails_closed(response) ==
    IF response.kind = "ok" THEN PackageInfo(TRUE, response.age)
    ELSE PackageInfo(FALSE, 0)

check_pypi(response) ==
    IF response.kind = "ok" THEN PackageInfo(TRUE, response.age)
    ELSE IF response.kind = "http" /\ response.code = 404
         THEN PackageInfo(FALSE, 0)
    ELSE PackageInfo(TRUE, 999)

\* .supply-chain-cache-pypi.json: missing, a timestamp and the records, or
\* text that is not JSON, of a length given in records: 0 for the file that
\* open(path, "w") has cut to 0 bytes and whose text is not written yet.
NoCacheFile == [state |-> "absent"]
CacheFile(timestamp, packages) ==
    [state |-> "doc", timestamp |-> timestamp, packages |-> packages]
InvalidCacheFile(size) == [state |-> "invalid", size |-> size]

\* load_cache: the packages of a file written less than 24 hours ago; {}
\* when the file is missing, too old, or not JSON (JSONDecodeError is
\* caught).
load_cache(file, now) ==
    IF file.state = "doc" /\ file.timestamp > now - CACHE_HOURS
    THEN file.packages
    ELSE EmptyMap

\* save_cache: one timestamp for the whole dict.
save_cache(packages, now) == CacheFile(now, packages)

\* Length of the cache file, counted in records: the text of a document is
\* the timestamp and one entry per package.
cache_size(file) ==
    CASE file.state = "absent" -> 0
      [] file.state = "invalid" -> file.size
      [] file.state = "doc" -> 1 + Cardinality(DOMAIN file.packages)

\* The file after write_text has written `text` from the start of a file
\* that holds `before`: the text alone, or the text followed by the rest of
\* a longer content, which is not JSON.  Of two documents with as many
\* records either can be the longer text (names, ages and the digits of the
\* timestamp differ), and torn says that the one in the file is.
cache_written_over(before, text, torn) ==
    IF cache_size(before) > cache_size(text)
       \/ (before.state = "doc" /\ cache_size(before) = cache_size(text) /\ torn)
    THEN InvalidCacheFile(cache_size(before))
    ELSE text

\* Line 132: trusted and exempted packages are passed over.
skipped(pkg, exemptions) ==
    pkg \in TRUSTED_PACKAGES \/ pkg \in exemptions

\* suspicious blocking a package of exactly MIN_DAYS_OLD days too.
suspicious_at_min_age(info) ==
    ~info.exists \/ info.age_days <= MIN_DAYS_OLD

\* Lines 140-145: the record blocks its package.
suspicious(info) ==
    ~info.exists \/ info.age_days < MIN_DAYS_OLD

Put(f, k, v) ==
    [x \in DOMAIN f \cup {k} |-> IF x = k THEN v ELSE f[x]]

\* The names of the list that are given a verdict.
judged_packages(packages, exemptions) ==
    {q \in {packages[i] : i \in 1..Len(packages)} : ~skipped(q, exemptions)}

\* The invocations that can be running at one time.
PypiInvocations == {1, 2}

\* The invocation has not started, or has ended.
NotWaiting == [pc |-> "idle"]

\* Most invocations followed in one behaviour.
MaxInvocations == 3

\* Most packages in the requirements of an invocation that runs while
\* another one does.
MaxOverlapRequirements == 1

\* An invocation can start: the second one is the one started while the
\* first runs.
can_start(p) ==
    /\ started < MaxInvocations
    /\ inflight[p] = NotWaiting
    /\ p = 2 => inflight[1] # NotWaiting

\* The requirements an invocation can find when it starts: any, and one of
\* at most MaxOverlapRequirements packages when it starts while the other
\* invocation runs, which then has no more either.
requirements_for(p) ==
    LET other == inflight[CHOOSE q \in PypiInvocations : q # p]
    IN  IF other = NotWaiting THEN Requirements \ {<<>>}
        ELSE IF Len(other.packages) > MaxOverlapRequirements THEN {}
        ELSE {r \in Requirements \ {<<>>} : Len(r) <= MaxOverlapRequirements}

\* The record of the run that ends: w is the invocation's state, with what
\* it loaded (and when each loaded record was built), the records it used,
\* the names it looked up and those whose lookup failed.
PypiRunRecord(w) ==
    LET judged == judged_packages(w.packages, w.exemptions)
        hits == (judged \cap DOMAIN w.loaded) \ w.looked
    IN  [check |-> "check_hallucinations_pypi",
         at |-> w.at, saved_at |-> w.saved_at,
         packages |-> w.packages, exemptions |-> w.exemptions,
         loaded |-> w.loaded,
         hit_fetched |-> [q \in hits |-> w.fetched[q]],
         info |-> [q \in judged |-> w.cache[q]],
         looked |-> w.looked, failed |-> w.failed,
         blocked |-> w.blocked,
         exit |-> IF w.blocked # <<>> THEN 1 ELSE 0]

\* Lines 122-125: requirements.txt names no package, the run ends at once
\* without reading or writing the cache.
NoPackagesRun(p) ==
    /\ can_start(p)
    /\ \E exemptions \in Exemptions :
        pypi' = PypiRunRecord(
                    [at |-> clock, saved_at |-> clock, packages |-> <<>>,
                     exemptions |-> exemptions, loaded |-> EmptyMap,
                     fetched |-> EmptyMap, cache |-> EmptyMap, looked |-> {},
                     failed |-> {}, blocked |-> <<>>])
    /\ started' = started + 1
    /\ UNCHANGED <<clock, cache_file, fetched, inflight>>
    /\ UNCHANGED outsideRegistry

\* Lines 122-129: an invocation parses requirements.txt as it is now, loads
\* the cache file as it is at the instant it reads the clock (nothing when
\* another invocation is rewriting the file), and loads the exemptions
\* file as it is now.
StartPypiCheck(p) ==
    /\ can_start(p)
    /\ \E now \in {t \in ClockValues : t >= clock},
          packages \in requirements_for(p), exemptions \in Exemptions :
        LET loaded == load_cache(cache_file, now)
        IN  /\ clock' = now
            /\ inflight' = [inflight EXCEPT ![p] =
                    [pc |-> "loop", i |-> 1, at |-> now, saved_at |-> now,
                     packages |-> packages, exemptions |-> exemptions,
                     loaded |-> loaded, cache |-> loaded,
                     fetched |-> [q \in DOMAIN loaded |-> fetched[q]],
                     looked |-> {}, failed |-> {}, blocked |-> <<>>]]
            /\ pypi' = NoRun
    /\ started' = started + 1
    /\ UNCHANGED <<cache_file, fetched>>
    /\ UNCHANGED outsideRegistry

\* One iteration of the loop of main (lines 131-145): the package is passed
\* over, or its record is taken from the dict, or check_pypi looks it up,
\* builds the record at the instant it reads the clock, and main puts it
\* into the dict; a suspicious record adds the package to blocked.
CheckPackage(p) ==
    /\ inflight[p] # NotWaiting
    /\ inflight[p].pc = "loop"
    /\ inflight[p].i <= Len(inflight[p].packages)
    /\ LET w == inflight[p]
           pkg == w.packages[w.i]
           verdict(info) ==
               IF suspicious(info) THEN Append(w.blocked, pkg) ELSE w.blocked
       IN  IF skipped(pkg, w.exemptions)
           THEN /\ inflight' = [inflight EXCEPT ![p].i = w.i + 1]
                /\ UNCHANGED clock
           ELSE IF pkg \in DOMAIN w.cache
           THEN /\ inflight' = [inflight EXCEPT
                                   ![p].i = w.i + 1,
                                   ![p].blocked = verdict(w.cache[pkg])]
                /\ UNCHANGED clock
           ELSE \E response \in Responses, now \in {t \in ClockValues : t >= clock} :
                LET info == check_pypi(response)
                IN  /\ clock' = now
                    /\ inflight' = [inflight EXCEPT
                            ![p].i = w.i + 1,
                            ![p].cache = Put(w.cache, pkg, info),
                            ![p].fetched = Put(w.fetched, pkg, now),
                            ![p].looked = w.looked \cup {pkg},
                            ![p].failed = IF FailedLookup(response)
                                          THEN w.failed \cup {pkg}
                                          ELSE w.failed,
                            ![p].blocked = verdict(info)]
    /\ pypi' = NoRun
    /\ UNCHANGED <<cache_file, fetched, started>>
    /\ UNCHANGED outsideRegistry

\* save_cache, line 147: the timestamp is read and write_text opens the
\* file, which cuts it to 0 bytes.
SaveCache(p) ==
    /\ inflight[p] # NotWaiting
    /\ inflight[p].pc = "loop"
    /\ inflight[p].i > Len(inflight[p].packages)
    /\ \E later \in {t \in ClockValues : t >= clock} :
        /\ clock' = later
        /\ inflight' = [inflight EXCEPT ![p].pc = "saving",
                                        ![p].saved_at = later]
    /\ cache_file' = InvalidCacheFile(0)
    /\ fetched' = <<>>
    /\ pypi' = NoRun
    /\ UNCHANGED started
    /\ UNCHANGED outsideRegistry

\* write_text writes the text and closes the file; lines 149-159: exit 1
\* when a package was blocked, else 0.
WriteCache(p) ==
    /\ inflight[p] # NotWaiting
    /\ inflight[p].pc = "saving"
    /\ LET w == inflight[p]
       IN  \E torn \in BOOLEAN :
            LET file == cache_written_over(
                            cache_file, save_cache(w.cache, w.saved_at), torn)
            IN  /\ cache_file' = file
                /\ fetched' = IF file.state = "doc" THEN w.fetched ELSE <<>>
                /\ pypi' = PypiRunRecord(w)
    /\ inflight' = [inflight EXCEPT ![p] = NotWaiting]
    /\ UNCHANGED <<clock, started>>
    /\ UNCHANGED outsideRegistry

InitRegistry ==
    /\ job = "check_hallucinations_pypi"
    /\ fs = NoBaselines
    /\ run = NoRun
    /\ CycleCheckIdle
    /\ ScanIdle
    /\ RegistryIdle
    /\ MainIdle
    /\ GateIdle
    /\ ParallelIdle

NextRegistry ==
    \E p \in PypiInvocations :
        \/ NoPackagesRun(p)
        \/ StartPypiCheck(p)
        \/ CheckPackage(p)
        \/ SaveCache(p)
        \/ WriteCache(p)

SpecRegistry == InitRegistry /\ [][NextRegistry]_vars

\* ---------------------------------------------------------------- src/main.py

\* Most signals delivered to the process in one behaviour.
MaxSignals == 3

\* Signals the environment sends; SIGHUP stands for the signals main
\* registers no handler for.
Signals == {"SIGTERM", "SIGINT", "SIGHUP"}

DefaultHandlers == [sig \in Signals |-> "default"]

\* _handle_signal reacting to SIGTERM only.
handle_signal_sigterm_only(signum, running) ==
    IF signum = "SIGTERM" THEN FALSE ELSE running

\* _handle_signal: the new value of _running.
handle_signal(signum, running) == FALSE

\* main is entered with the module's _running as it is (True after import,
\* whatever a caller assigned before), no handler registered.
InitMain ==
    /\ job = "main"
    /\ fs = NoBaselines
    /\ run = NoRun
    /\ CycleCheckIdle
    /\ ScanIdle
    /\ RegistryIdle
    /\ GateIdle
    /\ ParallelIdle
    /\ \E initially \in BOOLEAN :
        app = [pc |-> "line22", running |-> initially, initially |-> initially,
               handlers |-> DefaultHandlers, received |-> <<>>,
               handled |-> FALSE, slept |-> FALSE]

\* signal.signal(signal.SIGTERM, _handle_signal)
RegisterSigterm ==
    /\ app.pc = "line22"
    /\ app' = [app EXCEPT !.pc = "line23",
                          !.handlers["SIGTERM"] = "_handle_signal"]
    /\ UNCHANGED outsideMain

\* signal.signal(signal.SIGINT, _handle_signal), and the two log lines.
RegisterSigint ==
    /\ app.pc = "line23"
    /\ app' = [app EXCEPT !.pc = "line28",
                          !.handlers["SIGINT"] = "_handle_signal"]
    /\ UNCHANGED outsideMain

\* while _running:
TestRunning ==
    /\ app.pc = "line28"
    /\ app' = [app EXCEPT !.pc = IF app.running THEN "line29" ELSE "line31"]
    /\ UNCHANGED outsideMain

\* time.sleep(1)
Sleep ==
    /\ app.pc = "line29"
    /\ app' = [app EXCEPT !.pc = "line28", !.slept = TRUE]
    /\ UNCHANGED outsideMain

\* logger.info("Toy app stopped."), and the return.
ReturnFromMain ==
    /\ app.pc = "line31"
    /\ app' = [app EXCEPT !.pc = "returned"]
    /\ UNCHANGED outsideMain

\* A signal reaches the process while main runs: the registered handler is
\* called between two statements; without one the default action ends the
\* process (SIGINT: KeyboardInterrupt raised out of main).
DeliverSignal ==
    /\ app.pc \in {"line22", "line23", "line28", "line29", "line31"}
    /\ Len(app.received) < MaxSignals
    /\ \E sig \in Signals :
        IF app.handlers[sig] = "_handle_signal"
        THEN app' = [app EXCEPT !.running = handle_signal(sig, app.running),
                                !.received = Append(@, sig),
                                !.handled = TRUE]
        ELSE app' = [app EXCEPT !.pc = "killed",
                                !.received = Append(@, sig)]
    /\ UNCHANGED outsideMain

MainStep ==
    \/ RegisterSigterm
    \/ RegisterSigint
    \/ TestRunning
    \/ Sleep
    \/ ReturnFromMain

NextMain ==
    \/ MainStep
    \/ DeliverSignal

\* The process keeps executing its next statement; signals arrive or not.
SpecMain == InitMain /\ [][NextMain]_vars /\ WF_vars(MainStep)

\* ------- check_silent_catches, verify_integration_pairing, verify_behavioral_pairing

\* The items a project can hold, one per file: a route (keyed
\* "METHOD path"), an I/O adapter (keyed by module stem), a file with an
\* except handler.
Keys == {"k1", "k2"}

GateScripts == {"check_silent_catches", "verify_integration_pairing",
                "verify_behavioral_pairing"}

\* --changed-files absent, given without paths, given with paths relative
\* to the project root, given with absolute paths below the project root,
\* given with absolute paths that are not below it.
ChangedModes == {"none", "empty", "relative", "absolute", "foreign"}

\* The modes that name paths.
WithPaths == {"relative", "absolute", "foreign"}

\* The amnesty baseline: no file, or an object whose keys map to true.
NoAmnestyFile == [state |-> "absent"]
AmnestyDoc(keys) == [state |-> "doc", keys |-> keys]

\* load_baseline of the two pairing scripts: the keys of the object.
pairing_load_baseline(doc) ==
    IF doc.state = "absent" THEN {} ELSE doc.keys

\* The items of the files a run looks at: `if args.changed_files:` is false
\* for the empty list as for None, and the directories of the script are
\* scanned; a list of paths is looked at alone, whatever it holds and
\* wherever the paths lie.
gate_files(changed, listed, inTree) ==
    IF changed \in WithPaths THEN listed
    ELSE inTree

\* A run that died of an uncaught exception: traceback, exit status 1.
GateCrash(doc, files) ==
    [exit |-> 1, doc |-> doc, wrote |-> FALSE, crashed |-> TRUE,
     files |-> files, missing |-> {}]

GateResult(exit, doc, wrote, files, missing) ==
    [exit |-> exit, doc |-> doc, wrote |-> wrote, crashed |-> FALSE,
     files |-> files, missing |-> missing]

\* check_silent_catches.main: ok holds the files without a silent handler.
\* f.relative_to(PROJECT_ROOT) raises ValueError for a path that is not
\* absolute and below the project root, at the first violation.
\* bad says that a file the run reads makes read_text or ast.parse raise an
\* exception that `except (OSError, SyntaxError)` does not catch (a file
\* that is not valid UTF-8, content nested too deeply): a listed file when
\* paths are given, else one under the scanned directories.
silent_catches_main(doc, changed, listed, bad, inTree, ok) ==
    LET files == gate_files(changed, listed, inTree)
        violating == files \ ok
    IN  IF bad THEN GateCrash(doc, files)
        ELSE IF files = {} THEN GateResult(0, doc, FALSE, files, {})
        ELSE IF violating # {} /\ changed \in {"relative", "foreign"}
        THEN GateCrash(doc, files)
        ELSE GateResult(IF violating # {} THEN 1 ELSE 0, doc, FALSE,
                        files, violating)

\* verify_integration_pairing.main: ok holds the routes with a test; plain
\* says that a path given is a file that parses and holds no route.
\* rf.relative_to(PROJECT_ROOT) raises ValueError for a path that is not
\* absolute and below the project root, for every file parsed, before the
\* routes are looked at.
integration_pairing_main(doc, update, changed, listed, plain, bad, inTree, ok) ==
    LET baseline == pairing_load_baseline(doc)
        files == gate_files(changed, listed, inTree)
        missing == (files \ baseline) \ ok
    IN  IF bad THEN GateCrash(doc, files)
        ELSE IF changed \in {"relative", "foreign"} /\ (listed # {} \/ plain)
        THEN GateCrash(doc, files)
        ELSE IF files = {} THEN GateResult(0, doc, FALSE, files, {})
        ELSE IF update
        THEN GateResult(0, AmnestyDoc(baseline \cup missing), TRUE,
                        files, missing)
        ELSE GateResult(IF missing # {} THEN 1 ELSE 0, doc, FALSE,
                        files, missing)

\* verify_behavioral_pairing.main: ok holds the adapters with a behavioral
\* test.  Relative paths are joined to PROJECT_ROOT; for an adapter that is
\* not below the project root path.relative_to(PROJECT_ROOT) raises
\* ValueError, before anything is written.
behavioral_pairing_main(doc, update, changed, listed, bad, inTree, ok) ==
    LET baseline == pairing_load_baseline(doc)
        files == gate_files(changed, listed, inTree)
        missing == (files \ baseline) \ ok
    IN  IF bad THEN GateCrash(doc, files)
        ELSE IF files = {} THEN GateResult(0, doc, FALSE, files, {})
        ELSE IF changed = "foreign" THEN GateCrash(doc, files)
        ELSE IF update
        THEN GateResult(0, AmnestyDoc(baseline \cup missing), TRUE,
                        files, missing)
        ELSE GateResult(IF missing # {} THEN 1 ELSE 0, doc, FALSE,
                        files, missing)

NoGateRun == [check |-> "none"]

GateRun(check, update, changed, listed, plain, bad, before, out) ==
    [check |-> check, update |-> update, changed |-> changed,
     listed |-> listed, plain |-> plain, bad |-> bad, before |-> before,
     files |-> out.files, missing |-> out.missing, exit |-> out.exit,
     wrote |-> out.wrote, crashed |-> out.crashed, after |-> out.doc]

\* What is kept of the run before the last one: the command line of an
\* --update-baseline run and what it found missing.
Earlier(record) ==
    IF record.check = "none" \/ ~record.update THEN NoGateRun
    ELSE [check |-> record.check, update |-> record.update,
          changed |-> record.changed, listed |-> record.listed,
          plain |-> record.plain, bad |-> record.bad,
          missing |-> record.missing]

\* One invocation: the script's output, the baseline it leaves, the record
\* of the run and what is kept of the one before it.
CommitGate(record, out) ==
    /\ gate' = [gate EXCEPT !.baseline = out.doc,
                            !.prev = Earlier(gate.last),
                            !.last = record]
    /\ UNCHANGED outsideGates

\* Without paths on the command line nothing is listed; a file that makes
\* the run raise is listed alone.
PathsGiven(changed, listed, plain, bad) ==
    /\ changed \in {"none", "empty"} => (listed = {} /\ ~plain)
    /\ bad => (listed = {} /\ ~plain)

\* The items of the files a command line can name: any file of the
\* project, in the directories the script scans or elsewhere, when the
\* paths lie below the project root; files from elsewhere when they do not.
Listable(changed) ==
    IF changed = "foreign" THEN SUBSET gate.elsewhere
    ELSE SUBSET (gate.tree \cup gate.elsewhere)

RunSilentCatches ==
    /\ gate.check = "check_silent_catches"
    /\ \E changed \in ChangedModes, bad \in BOOLEAN :
        \E listed \in Listable(changed) :
        /\ PathsGiven(changed, listed, FALSE, bad)
        /\ LET out == silent_catches_main(gate.baseline, changed, listed,
                                          bad, gate.tree, gate.ok)
           IN  CommitGate(GateRun("check_silent_catches", FALSE, changed,
                                  listed, FALSE, bad, gate.baseline, out),
                          out)

RunIntegrationPairing ==
    /\ gate.check = "verify_integration_pairing"
    /\ \E update \in BOOLEAN, changed \in ChangedModes, plain \in BOOLEAN,
          bad \in BOOLEAN :
        \E listed \in Listable(changed) :
        /\ PathsGiven(changed, listed, plain, bad)
        /\ LET out == integration_pairing_main(gate.baseline, update, changed,
                                               listed, plain, bad, gate.tree,
                                               gate.ok)
           IN  CommitGate(GateRun("verify_integration_pairing", update,
                                  changed, listed, plain, bad, gate.baseline,
                                  out),
                          out)

RunBehavioralPairing ==
    /\ gate.check = "verify_behavioral_pairing"
    /\ \E update \in BOOLEAN, changed \in ChangedModes, bad \in BOOLEAN :
        \E listed \in Listable(changed) :
        /\ PathsGiven(changed, listed, FALSE, bad)
        /\ LET out == behavioral_pairing_main(gate.baseline, update, changed,
                                              listed, bad, gate.tree,
                                              gate.ok)
           IN  CommitGate(GateRun("verify_behavioral_pairing", update,
                                  changed, listed, FALSE, bad, gate.baseline,
                                  out),
                          out)

\* A project whose items stay as they are, no baseline file, no run yet:
\* tree holds the items under the directories the script scans, elsewhere
\* the items of the other files a command line can name, ok the items that
\* pass the check.
InitGates ==
    /\ job = "gate"
    /\ fs = NoBaselines
    /\ run = NoRun
    /\ CycleCheckIdle
    /\ ScanIdle
    /\ RegistryIdle
    /\ MainIdle
    /\ ParallelIdle
    /\ \E check \in GateScripts, inTree \in SUBSET Keys :
        \E elsewhere \in SUBSET (Keys \ inTree) :
        \E ok \in SUBSET (inTree \cup elsewhere) :
        gate = [check |-> check, tree |-> inTree, elsewhere |-> elsewhere,
                ok |-> ok,
                baseline |-> NoAmnestyFile,
                prev |-> NoGateRun, last |-> NoGateRun]

NextGates ==
    \/ RunSilentCatches
    \/ RunIntegrationPairing
    \/ RunBehavioralPairing

SpecGates == InitGates /\ [][NextGates]_vars

\* ------------------------------------------- invocations that run in parallel

ProcIds == {1, 2}

\* The checks, in the order a pipeline starts them.
JobList == <<"check_type_safety", "check_type_holes", "code_health_check",
             "guardrails_check", "check_per_file_baseline",
             "check_coverage_ratchet">>

\* coverage.json of the project: check_per_file_baseline reads it
\* (COVERAGE_JSON), and the pytest subprocess of check_coverage_ratchet
\* writes it and run_coverage reads it (Path("coverage.json")), one file
\* when the scripts run in the project root.
COVERAGE_JSON == "coverage.json"

\* A total of two digits.
LongTotal == 10

\* The totals of two overlapping invocations of check_type_safety.
OverlapTotals == 0..MaxTotal \cup {LongTotal, LongTotal + 1}

\* What an invocation measures and is told: the arguments of the script's
\* main section besides the baseline document and coverage.json.  The tree
\* has Python files, the violations are of the first kind, the thresholds
\* are the defaults or --new-floor is given without a number; a scan that
\* raises has counted nothing.  For check_coverage_ratchet: whether
\* subprocess.run finds python, and the report the pytest subprocess
\* writes (MissingReport: it ends without writing one).
Inputs(check) ==
    CASE check = "check_type_safety" ->
            {i \in [srcExists : BOOLEAN, raises : BOOLEAN,
                    matches : 0..MaxTotal] :
                i.raises => (i.srcExists /\ i.matches = 0)}
      [] check \in {"check_type_holes", "code_health_check",
                    "guardrails_check"} ->
            {i \in [nfiles : {1}, flag : BOOLEAN, raises : BOOLEAN,
                    first : 0..MaxTotal, second : {0}] :
                i.raises => i.first = 0}
      [] check = "check_per_file_baseline" ->
            [init : BOOLEAN, global_min : {NoOption},
             new_floor : {NoOption, BadOption}]
      [] check = "check_coverage_ratchet" ->
            [python : BOOLEAN,
             pytest_report : {MissingReport}
                 \cup {Report(75002, [q \in {"src/a.py"} |-> c]) :
                         c \in {79000, 85000}}]

\* The script's main section on the baseline document it loaded and, for
\* the two coverage scripts, on coverage.json as it read it.
run_check(check, doc, inp, report) ==
    CASE check = "check_type_safety" ->
            check_type_safety(doc, inp.srcExists, inp.raises, inp.matches)
      [] check = "check_type_holes" ->
            type_holes_main(doc, inp.nfiles, inp.flag, inp.raises, inp.first,
                            inp.second)
      [] check = "code_health_check" ->
            code_health_main(doc, inp.nfiles, inp.flag, inp.raises, inp.first,
                             inp.second)
      [] check = "guardrails_check" ->
            guardrails_main(doc, inp.nfiles, inp.flag, inp.raises, inp.first,
                            inp.second)
      [] check = "check_per_file_baseline" ->
            per_file_main(doc, inp.init, inp.global_min, inp.new_floor, report)
      [] check = "check_coverage_ratchet" ->
            check_coverage_ratchet(doc, inp.python, report)

\* The baseline documents an invocation can find: none, {}, and for the
\* count ratchets a saved total.
StartDocs(check) ==
    {MissingFile(check), EmptyObject(check)}
    \cup (IF check \in CountJobs THEN {TotalDoc(n) : n \in 0..MaxTotal}
          ELSE {})

\* coverage.json before the invocations start, where one of them is a
\* coverage script.
StartReports(c1, c2) ==
    IF {c1, c2} \cap {"check_per_file_baseline", "check_coverage_ratchet"} = {}
    THEN {MissingReport}
    ELSE {MissingReport}
         \cup {Report(75002, [q \in {"src/a.py"} |-> c]) : c \in {79896, 80302}}

\* Characters of json.dumps(counts, indent=2): of {"total": 0}, which
\* count_holes returns without src/, and of the four pattern counts and the
\* total, less their digits.
TOTAL_ONLY_TEXT == 16
COUNTS_TEXT == 95

Digits(n) == IF n < 10 THEN 1 ELSE 2

\* Length of the text save_baseline writes.  For check_type_safety: the
\* matches are all of the first pattern, whose count and the total have the
\* same digits.  The texts of the other scripts are never written over
\* one another; any length above 0 stands for theirs.
text_size(check, inp) ==
    IF check = "check_type_safety"
    THEN IF ~inp.srcExists THEN TOTAL_ONLY_TEXT
         ELSE COUNTS_TEXT + 2 * Digits(inp.matches)
    ELSE 1

Proc(check, inp, doc, report) ==
    [check |-> check, inp |-> inp, initial |-> doc, found |-> report,
     pc |-> "start", loaded |-> doc, report |-> MissingReport, exit |-> -1]

\* The invocation is left by an exception before it reads any file:
\* parse_args of check_per_file_baseline, subprocess.run of run_coverage.
raises_at_start(check, inp) ==
    CASE check = "check_per_file_baseline" ->
            parse_args_raises(inp.global_min, inp.new_floor)
      [] check = "check_coverage_ratchet" -> ~inp.python
      [] OTHER -> FALSE

\* The position from which an invocation goes on to load_baseline: the
\* count scripts scan the tree and read no other file, the coverage scripts
\* have read coverage.json.
measured(check) == IF check \in CountJobs THEN "start" ELSE "measured"

\* The invocation gets as far as its call of load_baseline: every script
\* measures first, and ends before the call when that raises or finds
\* nothing, and after save_baseline when it is told --init or
\* --update-baseline.
reaches_load_baseline(check, inp, report) ==
    CASE check = "check_type_safety" ->
            ~count_holes_raises(inp.srcExists, inp.raises)
      [] check \in {"check_type_holes", "code_health_check",
                    "guardrails_check"} ->
            inp.nfiles > 0 /\ ~inp.raises /\ ~inp.flag
      [] check = "check_per_file_baseline" ->
            /\ report.state = "report"
            /\ ~get_file_coverage_raises(report.files)
            /\ ~inp.init
      [] check = "check_coverage_ratchet" ->
            /\ ~run_coverage_raises(inp.python, report)
            /\ DOMAIN run_coverage(report) # {}

Event(p, op, path, doc, size) ==
    [proc |-> p, op |-> op, path |-> path, doc |-> doc, size |-> size]

\* run_coverage, lines 23-37: the pytest subprocess.  With --cov-report=json
\* it opens coverage.json for writing, which cuts the file to 0 bytes; or
\* it ends without writing a report, and the file stays as it was.
RunPytest(p) ==
    /\ procs[p].check = "check_coverage_ratchet"
    /\ procs[p].pc = "start"
    /\ procs[p].inp.python
    /\ IF procs[p].inp.pytest_report.state = "missing"
       THEN /\ procs' = [procs EXCEPT ![p].pc = "tested"]
            /\ UNCHANGED <<fs, events>>
       ELSE /\ procs' = [procs EXCEPT ![p].pc = "reporting"]
            /\ fs' = [fs EXCEPT ![COVERAGE_JSON] = InvalidReport]
            /\ events' = Append(events, Event(p, "open", COVERAGE_JSON,
                                              InvalidReport, 0))
    /\ UNCHANGED outsideParallel

\* The subprocess writes the report and ends; subprocess.run returns.
WriteReport(p) ==
    /\ procs[p].pc = "reporting"
    /\ procs' = [procs EXCEPT ![p].pc = "tested"]
    /\ fs' = [fs EXCEPT ![COVERAGE_JSON] = procs[p].inp.pytest_report]
    /\ events' = Append(events, Event(p, "write", COVERAGE_JSON,
                                      procs[p].inp.pytest_report, 1))
    /\ UNCHANGED outsideParallel

\* load_coverage of check_per_file_baseline, and lines 39-43 of
\* run_coverage: the invocation reads coverage.json.
LoadCoverage(p) ==
    /\ \/ /\ procs[p].check = "check_coverage_ratchet"
          /\ procs[p].pc = "tested"
       \/ /\ procs[p].check = "check_per_file_baseline"
          /\ procs[p].pc = "start"
          /\ ~raises_at_start(procs[p].check, procs[p].inp)
    /\ procs' = [procs EXCEPT ![p].pc = "measured",
                              ![p].report = fs[COVERAGE_JSON]]
    /\ events' = Append(events, Event(p, "read", COVERAGE_JSON,
                                      fs[COVERAGE_JSON], 0))
    /\ UNCHANGED fs
    /\ UNCHANGED outsideParallel

\* load_baseline: the invocation reads its baseline file, as it is at that
\* moment.
LoadBaseline(p) ==
    /\ procs[p].pc = measured(procs[p].check)
    /\ ~raises_at_start(procs[p].check, procs[p].inp)
    /\ reaches_load_baseline(procs[p].check, procs[p].inp, procs[p].report)
    /\ LET path == BaselinePath(procs[p].check)
       IN  /\ procs' = [procs EXCEPT ![p].pc = "loaded",
                                     ![p].loaded = fs[path]]
           /\ events' = Append(events, Event(p, "read", path, fs[path], 0))
    /\ UNCHANGED fs
    /\ UNCHANGED outsideParallel

\* The rest of the invocation up to the exit or to save_baseline: the
\* comparison with what it loaded, and if it saves, the open(path, "w") of
\* write_text, which cuts the file to 0 bytes.
FinishCheck(p) ==
    /\ \/ procs[p].pc = "loaded"
       \/ /\ procs[p].pc = measured(procs[p].check)
          /\ ~reaches_load_baseline(procs[p].check, procs[p].inp,
                                    procs[p].report)
       \/ /\ procs[p].pc = "start"
          /\ raises_at_start(procs[p].check, procs[p].inp)
    /\ LET path == BaselinePath(procs[p].check)
           out == run_check(procs[p].check, procs[p].loaded, procs[p].inp,
                            procs[p].report)
       IN  IF out.wrote
           THEN /\ procs' = [procs EXCEPT ![p].pc = "writing"]
                /\ fs' = [fs EXCEPT ![path] = InvalidFile(procs[p].check)]
                /\ events' = Append(events,
                                    Event(p, "open", path,
                                          InvalidFile(procs[p].check), 0))
           ELSE /\ procs' = [procs EXCEPT ![p].pc = "done",
                                          ![p].exit = out.exit]
                /\ UNCHANGED <<fs, events>>
    /\ UNCHANGED outsideParallel

\* Characters in the file now: 0 after open(path, "w"), else those of the
\* text last written, or of what two writes left.
file_size(path) ==
    LET writes == {e \in 1..Len(events) :
                     events[e].path = path /\ events[e].op # "read"}
        last == CHOOSE e \in writes : \A f \in writes : f <= e
    IN  IF writes = {} THEN 0
        ELSE IF events[last].op = "open" THEN 0
        ELSE IF fs[path].state = "invalid" THEN fs[path].size
        ELSE events[last].size

\* The file after a write of `text` from its start: the text, followed by
\* what the file held beyond the length of the text, which is not JSON.
written_over(size_before, text, size) ==
    IF size_before > size THEN InvalidDoc(size_before) ELSE text

\* The write and the close of write_text, and the exit.
WriteBaseline(p) ==
    /\ procs[p].pc = "writing"
    /\ LET path == BaselinePath(procs[p].check)
           out == run_check(procs[p].check, procs[p].loaded, procs[p].inp,
                            procs[p].report)
           size == text_size(procs[p].check, procs[p].inp)
       IN  /\ procs' = [procs EXCEPT ![p].pc = "done", ![p].exit = out.exit]
           /\ fs' = [fs EXCEPT
                        ![path] = written_over(file_size(path), out.doc, size)]
           /\ events' = Append(events, Event(p, "write", path, out.doc, size))
    /\ UNCHANGED outsideParallel

ParallelIdleOthers ==
    /\ run = NoRun
    /\ CycleCheckIdle
    /\ ScanIdle
    /\ RegistryIdle
    /\ MainIdle
    /\ GateIdle

\* The baseline files and coverage.json.
Files(docs, report) ==
    [q \in Paths \cup {COVERAGE_JSON} |->
        IF q = COVERAGE_JSON THEN report
        ELSE IF q \in DOMAIN docs THEN docs[q]
        ELSE MissingFile(CHOOSE j \in Jobs : BaselinePath(j) = q)]

\* Two different checks started on one tree.
InitParallel ==
    /\ job = "parallel"
    /\ ParallelIdleOthers
    /\ events = <<>>
    /\ \E a \in 1..Len(JobList), b \in 1..Len(JobList) :
        /\ a < b
        /\ LET c1 == JobList[a]
               c2 == JobList[b]
           IN  \E i1 \in Inputs(c1), i2 \in Inputs(c2),
                  d1 \in StartDocs(c1), d2 \in StartDocs(c2),
                  report \in StartReports(c1, c2) :
            /\ procs = <<Proc(c1, i1, d1, report), Proc(c2, i2, d2, report)>>
            /\ fs = Files([q \in {BaselinePath(c1), BaselinePath(c2)} |->
                              IF q = BaselinePath(c1) THEN d1 ELSE d2],
                          report)

NextParallel ==
    \E p \in ProcIds :
        \/ RunPytest(p)
        \/ WriteReport(p)
        \/ LoadCoverage(p)
        \/ LoadBaseline(p)
        \/ FinishCheck(p)
        \/ WriteBaseline(p)

SpecParallel == InitParallel /\ [][NextParallel]_vars

\* Two invocations of check_type_safety started on one baseline file, each
\* with the total it counted.
InitOverlap ==
    /\ job = "overlap"
    /\ ParallelIdleOthers
    /\ events = <<>>
    /\ \E i1, i2 \in {i \in [srcExists : BOOLEAN, raises : BOOLEAN,
                            matches : OverlapTotals] :
                        i.raises => (i.srcExists /\ i.matches = 0)},
          d \in StartDocs("check_type_safety")
                \cup {TotalDoc(n) : n \in OverlapTotals} :
        /\ procs = <<Proc("check_type_safety", i1, d, MissingReport),
                     Proc("check_type_safety", i2, d, MissingReport)>>
        /\ fs = Files([q \in {TYPE_SAFETY_BASELINE} |-> d], MissingReport)

NextOverlap ==
    \E p \in ProcIds : LoadBaseline(p) \/ FinishCheck(p) \/ WriteBaseline(p)

SpecOverlap == InitOverlap /\ [][NextOverlap]_vars

\* ------------------------------------- any script that takes --changed-files

InitIncremental == Init \/ InitGates

NextIncremental == Next \/ NextGates

SpecIncremental == InitIncremental /\ [][NextIncremental]_vars

\* ------------------------------------------------ any script that scans src/

\* One of the baseline ratchets, or the cycle check, is the CI step.
InitScripts == Init \/ InitCycles

NextScripts == Next \/ NextCycles

SpecScripts == InitScripts /\ [][NextScripts]_vars

\* ------------------------------------------------------------------- claims

\* The baseline document of the job, as persisted now.
JobDoc == fs[BaselinePath(job)]

NormalCountRun(checks) ==
    run.check \in checks /\ ~run.flag /\ run.scanned

NormalPerFileRun ==
    run.check = "check_per_file_baseline" /\ ~run.flag /\ run.reported

CoverageRatchetRun ==
    run.check = "check_coverage_ratchet" /\ run.reported

\* The files of the run's snapshot with, and without, a baseline entry.
TrackedFiles == DOMAIN run.cur \cap DOMAIN run.before.files
NewFiles == DOMAIN run.cur \ DOMAIN run.before.files

Flagged(type, p) ==
    IF run.check = "check_per_file_baseline"
    THEN [type |-> type, file |-> p] \in run.violations
    ELSE type = "new-file" /\ p \in run.violations

\* A number of points in the unit of the run's snapshot: check_per_file_baseline
\* rounds to hundredths, check_coverage_ratchet takes the report's values.
InUnit(n) ==
    IF run.check = "check_per_file_baseline" THEN Points(n) ELSE Thousandths(n)

\* A run of check_per_file_baseline without --init, whether or not it got
\* as far as comparing the report with the baseline.
PerFileRun == run.check = "check_per_file_baseline" /\ ~run.flag

\* The tracked files the report of the run shows more than the tolerance
\* below their baseline value.
RegressedFiles ==
    {p \in TrackedFiles :
        run.before.files[p] - run.cur[p] > REGRESSION_TOLERANCE}

\* C1: in check_type_safety, code_health_check and guardrails_check run
\* without --init, once the baseline document holds a total, a run never
\* leaves a higher total persisted than the one it found.
C1_TotalNeverIncreases ==
    ( /\ run.check \in {"check_type_safety", "code_health_check", "guardrails_check"}
      /\ ~run.flag
      /\ run.before.state = "total" )
    => (JobDoc.state = "total" /\ JobDoc.total <= run.before.total)

C1_Witness ==
    /\ run.check = "guardrails_check"
    /\ ~run.flag
    /\ run.before.state = "total"
    /\ JobDoc.total < run.before.total

\* C2 as stated: in check_type_safety, check_type_holes and
\* code_health_check, a run that computes a total above the total of the
\* baseline document exits 1 and leaves the document as it was.
C2_AnyRunRegressionBlocked ==
    ( /\ run.check \in {"check_type_safety", "check_type_holes", "code_health_check"}
      /\ run.scanned
      /\ run.before.state = "total"
      /\ run.cur > run.before.total )
    => (run.exit = 1 /\ ~run.wrote /\ JobDoc = run.before)

\* C2 amended: the same for a run without --update-baseline / --init; a run
\* of check_type_holes with --update-baseline or of code_health_check with
\* --init that computes a total persists it and exits 0, whatever the
\* baseline total was.
C2_RegressionBlocked ==
    /\ ( /\ NormalCountRun({"check_type_safety", "check_type_holes", "code_health_check"})
         /\ run.before.state = "total"
         /\ run.cur > run.before.total )
       => (run.exit = 1 /\ ~run.wrote /\ JobDoc = run.before)
    /\ ( /\ run.check \in {"check_type_holes", "code_health_check"}
         /\ run.flag
         /\ run.scanned )
       => (run.exit = 0 /\ run.wrote /\ JobDoc = TotalDoc(run.cur))

C2_Witness ==
    /\ NormalCountRun({"check_type_holes"})
    /\ run.before.state = "total"
    /\ run.cur = run.before.total + 1
    /\ run.exit = 1

\* C3: in check_type_safety, code_health_check and guardrails_check, a run
\* that computes a total below the baseline total exits 0 and persists the
\* computed total.
C3_ImprovementCaptured ==
    ( /\ run.check \in {"check_type_safety", "code_health_check", "guardrails_check"}
      /\ run.scanned
      /\ run.before.state = "total"
      /\ run.cur < run.before.total )
    => (run.exit = 0 /\ JobDoc = TotalDoc(run.cur))

C3_Witness ==
    /\ run.check = "check_type_safety"
    /\ run.before.state = "total"
    /\ run.cur < run.before.total
    /\ run.wrote
    /\ JobDoc = TotalDoc(run.cur)

\* C4: in check_type_holes run without --update-baseline, a current total
\* below the baseline total exits 0 and is persisted as the new baseline.
C4_TypeHolesImprovementCaptured ==
    ( /\ NormalCountRun({"check_type_holes"})
      /\ run.before.state = "total"
      /\ run.cur < run.before.total )
    => (run.exit = 0 /\ JobDoc = TotalDoc(run.cur))

\* C5: in check_type_holes, code_health_check and guardrails_check, a normal
\* run with no baseline file and N > 0 violations exits 0 and creates the
\* baseline with total N.
C5_FirstRunCreatesBaseline ==
    ( /\ NormalCountRun({"check_type_holes", "code_health_check", "guardrails_check"})
      /\ run.before.state = "absent"
      /\ run.cur > 0 )
    => (run.exit = 0 /\ JobDoc = TotalDoc(run.cur))

\* C6: in check_type_safety and check_coverage_ratchet, a run that finds no
\* baseline or an empty one and has a non-empty snapshot exits 0 and persists
\* the snapshot as the baseline, whatever its values.
C6_FirstRunAdoptsSnapshot ==
    /\ ( /\ run.check = "check_type_safety"
         /\ run.scanned
         /\ run.before.state \in {"absent", "empty"} )
       => (run.exit = 0 /\ run.wrote /\ JobDoc = TotalDoc(run.cur))
    /\ ( /\ CoverageRatchetRun
         /\ run.before \in {CrAbsentDoc, CrDoc(EmptyMap)} )
       => (run.exit = 0 /\ run.wrote /\ JobDoc = CrDoc(run.cur))

C6_Witness ==
    /\ CoverageRatchetRun
    /\ run.before.state = "absent"
    /\ \E p \in DOMAIN run.cur : run.cur[p] < InUnit(COVERAGE_THRESHOLD)
    /\ run.exit = 0
    /\ JobDoc = CrDoc(run.cur)

\* C7 as stated: in check_per_file_baseline without --init, a tracked file
\* that the report shows more than 0.2 points below its baseline value is
\* recorded as a regression, the run exits 1 and the baseline document is
\* not written.
C7_RegressedFileAlwaysRecorded ==
    PerFileRun =>
        \A p \in RegressedFiles :
            /\ Flagged("regression", p)
            /\ run.exit = 1
            /\ ~run.wrote
            /\ JobDoc = run.before

\* C7 amended: the same for a run that gets as far as the comparison; a run
\* that an exception ends before it (in parse_args, in load_coverage or in
\* get_file_coverage) exits 1 and writes nothing, and records no violation.
C7_PerFileRegressionBlocked ==
    /\ NormalPerFileRun =>
        \A p \in RegressedFiles :
            /\ Flagged("regression", p)
            /\ run.exit = 1
            /\ ~run.wrote
            /\ JobDoc = run.before
    /\ (PerFileRun /\ run.raised) =>
        /\ run.violations = {}
        /\ run.exit = 1
        /\ ~run.wrote
        /\ JobDoc = run.before

C7_Witness ==
    /\ NormalPerFileRun
    /\ \E p \in TrackedFiles :
        /\ run.before.files[p] - run.cur[p] > REGRESSION_TOLERANCE
        /\ Flagged("regression", p)
    /\ \E p \in TrackedFiles : run.cur[p] > run.before.files[p]
    /\ run.exit = 1
    /\ JobDoc = run.before

\* C8: in check_per_file_baseline, a tracked file below its baseline value
\* by at most 0.2 points produces no violation, and its persisted baseline
\* value is the same after the run.
C8_DropWithinToleranceAllowed ==
    NormalPerFileRun =>
        \A p \in TrackedFiles :
            ( /\ run.before.files[p] - run.cur[p] > 0
              /\ run.before.files[p] - run.cur[p] <= REGRESSION_TOLERANCE )
            => /\ ~Flagged("regression", p)
               /\ JobDoc.files[p] = run.before.files[p]

\* C9: in check_coverage_ratchet, a tracked file more than 5 points below
\* its baseline value makes the run exit 1 and leaves the baseline unchanged.
C9_CoverageRatchetRegressionFails ==
    CoverageRatchetRun =>
        \A p \in TrackedFiles :
            run.cur[p] < run.before.files[p] - InUnit(5)
            => (run.exit = 1 /\ JobDoc = run.before)

\* C10 as stated: in check_per_file_baseline and check_coverage_ratchet, a
\* file with no baseline entry is a violation and the run exits 1 when it is
\* below the floor (80, or the --new-floor of the run), and is no violation
\* at or above it, whatever the baseline document holds (absent, empty or
\* populated).
C10_NewFileFloorAnyBaseline ==
    (run.check \in {"check_per_file_baseline", "check_coverage_ratchet"}
        /\ run.reported) =>
        \A p \in NewFiles :
            IF run.cur[p] < InUnit(run.new_floor)
            THEN Flagged("new-file", p) /\ run.exit = 1
            ELSE ~Flagged("new-file", p)

\* C10 amended: the same for a run of check_coverage_ratchet, or of
\* check_per_file_baseline without --init, on a baseline document that
\* tracks at least one file.  In every other run that has a snapshot no
\* file is held to the floor: check_per_file_baseline without --init on a
\* baseline that is absent, empty or not JSON records no new-file
\* violation, with --init it saves the snapshot and exits 0, and
\* check_coverage_ratchet on an absent or empty baseline saves the snapshot
\* and exits 0.
C10_NewFileFloorPopulatedBaseline ==
    /\ ( /\ NormalPerFileRun \/ CoverageRatchetRun
         /\ DOMAIN run.before.files # {} )
       => \A p \in NewFiles :
            IF run.cur[p] < InUnit(run.new_floor)
            THEN Flagged("new-file", p) /\ run.exit = 1
            ELSE ~Flagged("new-file", p)
    /\ (NormalPerFileRun /\ DOMAIN run.before.files = {})
       => \A p \in NewFiles : ~Flagged("new-file", p)
    /\ ( /\ run.check = "check_per_file_baseline"
         /\ run.flag
         /\ run.reported )
       => /\ run.violations = {}
          /\ run.exit = 0
          /\ JobDoc.state = "doc"
          /\ JobDoc.files = run.cur
    /\ (CoverageRatchetRun /\ DOMAIN run.before.files = {})
       => /\ run.violations = {}
          /\ run.exit = 0
          /\ JobDoc = CrDoc(run.cur)

C10_Witness ==
    /\ CoverageRatchetRun
    /\ TrackedFiles # {}
    /\ \E p \in NewFiles :
        run.cur[p] < InUnit(run.new_floor) /\ Flagged("new-file", p)
    /\ run.exit = 1
    /\ JobDoc = run.before

\* C11 as stated: in check_per_file_baseline run without --init, every
\* tracked file whose current coverage is above its baseline value has the
\* current value persisted after the run, whatever the run finds for the
\* other files or for the global minimum.
C11_ImprovedFileAlwaysPersisted ==
    NormalPerFileRun =>
        \A p \in TrackedFiles :
            run.cur[p] > run.before.files[p] => JobDoc.files[p] = run.cur[p]

\* C11 amended: the same, for a run that finds no violation (exit 0); a
\* run that exits 1, on a violation or by an exception, writes nothing.
C11_ImprovedFilePersistedOnPass ==
    /\ (NormalPerFileRun /\ run.exit = 0) =>
        \A p \in TrackedFiles :
            run.cur[p] > run.before.files[p] => JobDoc.files[p] = run.cur[p]
    /\ (PerFileRun /\ run.exit = 1) => (~run.wrote /\ JobDoc = run.before)

C11_Witness ==
    /\ NormalPerFileRun
    /\ run.exit = 0
    /\ \E p \in TrackedFiles :
        run.cur[p] > run.before.files[p] /\ JobDoc.files[p] = run.cur[p]
    /\ \E q \in TrackedFiles :
        run.cur[q] < run.before.files[q] /\ JobDoc.files[q] = run.before.files[q]

\* C12: in check_coverage_ratchet no run lowers or removes a baseline entry:
\* every key of the baseline a run found is still present with a value at
\* least as high, a run that exits 1 writes nothing, and a passing run over
\* a populated baseline stores max(old, current) for every tracked file.
C12_BaselineNeverLowered ==
    run.check = "check_coverage_ratchet" =>
        /\ \A p \in DOMAIN run.before.files :
            /\ p \in DOMAIN JobDoc.files
            /\ JobDoc.files[p] >= run.before.files[p]
        /\ run.exit = 1 => (~run.wrote /\ JobDoc = run.before)
        /\ (run.exit = 0 /\ run.reported) =>
            \A p \in TrackedFiles :
                JobDoc.files[p] = Max(run.before.files[p], run.cur[p])

C12_Witness ==
    /\ CoverageRatchetRun
    /\ run.exit = 0
    /\ run.wrote
    /\ \E p \in TrackedFiles :
        run.cur[p] < run.before.files[p] /\ JobDoc.files[p] = run.before.files[p]
    /\ \E q \in DOMAIN run.before.files :
        q \notin DOMAIN run.cur /\ JobDoc.files[q] = run.before.files[q]

\* The graph has the edge a -> b.
Edge(a, b) == a \in DOMAIN graph /\ b \in graph[a]

\* The sequence of n names, first name repeated at the end, is a directed
\* cycle of the graph through n distinct modules.
IsElementaryCycle(c) ==
    /\ Len(c) >= 2
    /\ c[Len(c)] = c[1]
    /\ \A i, j \in 1..(Len(c) - 1) : i # j => c[i] # c[j]
    /\ \A i \in 1..(Len(c) - 1) : Edge(c[i], c[i + 1])

ElementaryCycles ==
    {c \in UNION {[1..n -> Modules] : n \in 2..(Cardinality(Modules) + 1)} :
        IsElementaryCycle(c)}

Acyclic == ElementaryCycles = {}

\* Two closed sequences name the same cycle, started at different nodes.
SameCycle(c, d) ==
    /\ Len(c) = Len(d)
    /\ \E k \in 0..(Len(c) - 2) :
        \A i \in 1..Len(c) : d[i] = c[((i - 1 + k) % (Len(c) - 1)) + 1]

CycleCheckDone == pc = "done" /\ src_dir_exists

Triangle ==
    graph = [m \in Modules |->
                CASE m = "src.a" -> {"src.b"}
                  [] m = "src.b" -> {"src.c"}
                  [] m = "src.c" -> {"src.a"}]

SelfImport == graph = [m \in {"src.a"} |-> {"src.a"}]

\* C13: the detector records exactly one cycle, through all three modules,
\* for the graph a -> b -> c -> a; exactly one cycle, the sequence a, a, for
\* the graph a -> a; and no cycle, returning 0, for every acyclic graph.
C13_TriangleSelfLoopAcyclic ==
    CycleCheckDone =>
        /\ Triangle =>
            /\ Len(cycles) = 1
            /\ {cycles[1][i] : i \in 1..Len(cycles[1])} = Modules
            /\ IsElementaryCycle(cycles[1])
        /\ SelfImport => cycles = << <<"src.a", "src.a">> >>
        /\ Acyclic => (cycles = <<>> /\ result = 0)

C13_Witness ==
    /\ CycleCheckDone
    /\ Triangle
    /\ cycles = << <<"src.b", "src.c", "src.a", "src.b">> >>
    /\ result = 1

\* C14: when the detector has finished, its cycle list holds every
\* elementary directed cycle of the import graph, up to the node the
\* sequence starts at.
C14_EveryElementaryCycleRecorded ==
    CycleCheckDone =>
        \A c \in ElementaryCycles :
            \E i \in 1..Len(cycles) : SameCycle(cycles[i], c)

\* C15: the traversal of every graph the detector has built terminates, dfs
\* is never called twice on a node, and when the traversal is over dfs has
\* been called exactly once on every key of the graph.
C15_TerminatesEachNodeOnce ==
    /\ [](\A m \in Modules : entered[m] <= 1)
    /\ [](CycleCheckDone => \A m \in DOMAIN graph : entered[m] = 1)
    /\ (pc = "loop") ~> (pc = "done")

C15_Witness ==
    /\ CycleCheckDone
    /\ graph = [m \in {"src.a", "src.b"} |-> Modules]
    /\ entered = [m \in Modules |-> 1]
    /\ Len(cycles) = 3

\* C16: in check_type_holes a file whose content does not parse contributes
\* zero to the type_ignore, any and total counters, and the files after it
\* are analyzed.
C16_InvalidSyntaxContributesZero ==
    /\ \A i \in 1..Len(scan.results) :
        (scan.files[i].readable /\ ~scan.files[i].parses) =>
            /\ scan.results[i].type_ignore = 0
            /\ scan.results[i].any = 0
            /\ scan.results[i].total = 0
    /\ scan.state = "summed" => Len(scan.results) = Len(scan.files)

\* A finished run of check_type_holes or code_health_check that found no
\* source root.
MissingRootRun ==
    /\ run.check \in {"check_type_holes", "code_health_check"}
    /\ ~run.root

EmptyScanPass ==
    /\ ~run.scanned
    /\ run.exit = 0
    /\ ~run.wrote
    /\ JobDoc = run.before

CycleCheckSkipped ==
    /\ cycles = <<>>
    /\ visited = {}
    /\ result = 0
    /\ fs = NoBaselines

MissingRootCycleCheck ==
    job = "check_circular_deps" /\ pc = "done" /\ ~src_dir_exists

\* C17 as stated: when the source root does not exist, check_type_holes,
\* code_health_check and the AST cycle check each scan nothing and exit 0,
\* whatever the baseline document holds and however the script is invoked.
C17_MissingRootEmptyScan ==
    /\ MissingRootRun => EmptyScanPass
    /\ MissingRootCycleCheck => CycleCheckSkipped

\* C17 amended: the same, for check_type_holes only when it is not given a
\* non-empty list of changed files.
C17_MissingRootEmptyTreeScan ==
    /\ (MissingRootRun /\ ~run.partial) => EmptyScanPass
    /\ MissingRootCycleCheck => CycleCheckSkipped

C17_Witness ==
    /\ run.check = "check_type_holes"
    /\ ~run.root
    /\ ~run.partial
    /\ run.before.state = "total"
    /\ run.before.total > 0
    /\ EmptyScanPass

PypiRun == pypi.check = "check_hallucinations_pypi"

\* The names of the run's list that are neither trusted nor exempted.
Judged == judged_packages(pypi.packages, pypi.exemptions)

Blocked == {pypi.blocked[i] : i \in 1..Len(pypi.blocked)}

\* Every name given a verdict was looked up in the registry by this run.
AllLookedUp == pypi.looked = Judged

\* C18 as stated: in check_hallucinations_pypi a package whose lookup fails
\* (timeout, HTTP error other than 404, other exception) is not blocked, the
\* packages after it still get their verdict, and a run in which every
\* lookup fails this way exits 0.
C18_FailedLookupsNeverBlock ==
    PypiRun =>
        /\ pypi.failed \cap Blocked = {}
        /\ DOMAIN pypi.info = Judged
        /\ (pypi.looked # {} /\ pypi.failed = pypi.looked) => pypi.exit = 0

\* C18 amended: the same, the run exiting 0 when every package given a
\* verdict is looked up and every lookup fails (no verdict comes from the
\* cache).
C18_FailedLookupsAloneNeverBlock ==
    PypiRun =>
        /\ pypi.failed \cap Blocked = {}
        /\ DOMAIN pypi.info = Judged
        /\ (AllLookedUp /\ pypi.failed = pypi.looked) => pypi.exit = 0

C18_Witness ==
    /\ PypiRun
    /\ pypi.packages = <<"reqeusts", "fastjsonx">>
    /\ pypi.looked = {"reqeusts", "fastjsonx"}
    /\ pypi.failed = pypi.looked
    /\ pypi.exit = 0
    /\ cache_file.state = "doc"
    /\ cache_file.packages["reqeusts"] = PackageInfo(TRUE, 999)

\* C19: every cached registry record a run uses was built by a lookup no
\* more than 24 hours before that run.
C19_CachedRecordsAtMostADayOld ==
    PypiRun =>
        \A q \in DOMAIN pypi.hit_fetched :
            pypi.at - pypi.hit_fetched[q] <= CACHE_HOURS

C25_RecordedCyclesAreReal ==
    \A i \in 1..Len(cycles) :
        LET c == cycles[i]
        IN  /\ Len(c) >= 2
            /\ c[1] = c[Len(c)]
            /\ \A k \in 1..(Len(c) - 1) :
                c[k] \in DOMAIN graph /\ c[k + 1] \in graph[c[k]]

C25_Witness ==
    /\ CycleCheckDone
    /\ graph = [m \in Modules |->
                    CASE m = "src.a" -> {"src.b"}
                      [] m = "src.b" -> {"src.c"}
                      [] m = "src.c" -> {"src.b"}]
    /\ entered = [m \in Modules |-> 1]
    /\ cycles = << <<"src.b", "src.c", "src.b">> >>

\* C26: the AST cycle check returns 1 exactly when the import graph has a
\* directed cycle (a self-import included), and then at least one cycle is
\* recorded, in whatever order modules and imports are iterated.
C26_ReturnsOneIffCyclic ==
    CycleCheckDone =>
        /\ result = 1 <=> ElementaryCycles # {}
        /\ result = 0 <=> ElementaryCycles = {}
        /\ ElementaryCycles # {} => Len(cycles) >= 1

C26_Witness ==
    /\ CycleCheckDone
    /\ graph = [m \in {"src.a", "src.b", "src.c"} |->
                    CASE m = "src.a" -> {"src.b", "src.c"}
                      [] m = "src.b" -> {}
                      [] m = "src.c" -> {"src.a"}]
    /\ cycles = << <<"src.c", "src.a", "src.c">> >>
    /\ result = 1

\* C29: in check_hallucinations_pypi the placeholder of a failed lookup is
\* not persisted: after a run the cache file holds no record for a package
\* whose lookup failed in it, and no run is served such a placeholder from
\* the cache.
C29_FailurePlaceholderNotCached ==
    PypiRun =>
        /\ \A q \in pypi.failed :
            ~(cache_file.state = "doc" /\ q \in DOMAIN cache_file.packages)
        /\ \A q \in DOMAIN pypi.hit_fetched :
            pypi.info[q] # PackageInfo(TRUE, 999)

\* C30: a run of check_type_safety that finds no source directory exits 0
\* and leaves the baseline document as it was.
C30_MissingSourceLeavesBaseline ==
    (run.check = "check_type_safety" /\ ~run.root) =>
        /\ run.exit = 0
        /\ ~run.wrote
        /\ JobDoc = run.before

\* C27: in guardrails_check a --staged run on a tree whose full scan passes
\* (the tree's violation count is not above the baseline total) leaves a
\* baseline total that the full scan of the same tree still passes.
C27_StagedRunKeepsFullScanPassing ==
    ( /\ run.check = "guardrails_check"
      /\ run.partial
      /\ ~run.flag
      /\ run.before.state = "total"
      /\ run.tree <= run.before.total )
    => (JobDoc.state = "total" /\ run.tree <= JobDoc.total)

MainInLoop == app.pc \in {"line28", "line29", "line31", "returned"}

\* Handlers are registered for SIGTERM and SIGINT only, and from the loop
\* on for both; a handled signal leaves _running False; the loop body does
\* not run when main is entered with _running False.
MainSafety ==
    /\ app.handlers["SIGHUP"] = "default"
    /\ MainInLoop =>
        /\ app.handlers["SIGTERM"] = "_handle_signal"
        /\ app.handlers["SIGINT"] = "_handle_signal"
    /\ app.handled => ~app.running
    /\ ~app.initially => (~app.slept /\ app.pc # "line29")

\* C23 as stated: main registers _handle_signal for exactly SIGTERM and
\* SIGINT before its loop; every call of the handler leaves _running False
\* and nothing sets it back to True; once a handled signal is delivered,
\* main eventually returns; entered with _running False, the loop body never
\* runs.
C23_HandledSignalStopsMain ==
    /\ []MainSafety
    /\ [][~app.running => ~app'.running]_vars
    /\ app.handled ~> (app.pc = "returned")

\* C23 amended: the same, main returning unless a signal that has no handler
\* registered (yet) ends the process first.
C23_HandledSignalStopsMainUnlessKilled ==
    /\ []MainSafety
    /\ [][~app.running => ~app'.running]_vars
    /\ app.handled ~> (app.pc = "returned" \/ app.pc = "killed")

C23_Witness ==
    /\ app.pc = "returned"
    /\ app.initially
    /\ app.slept
    /\ app.received = <<"SIGINT">>
    /\ ~app.running

PairingScripts == {"verify_integration_pairing", "verify_behavioral_pairing"}

\* The last run is a normal run that follows an --update-baseline run over
\* the same target set.
NormalAfterUpdate ==
    /\ gate.last.check \in PairingScripts
    /\ gate.prev.check \in PairingScripts
    /\ gate.prev.update
    /\ ~gate.last.update
    /\ gate.last.changed = gate.prev.changed
    /\ gate.last.listed = gate.prev.listed
    /\ gate.last.plain = gate.prev.plain
    /\ gate.last.bad = gate.prev.bad

\* C24: a normal run of a pairing script that follows an --update-baseline
\* run over the same tree and target set exits 0; no run reports a key of
\* the baseline as missing; --update-baseline keeps every key the baseline
\* had.
C24_AmnestyHolds ==
    /\ NormalAfterUpdate => gate.last.exit = 0
    /\ gate.last.check \in PairingScripts =>
        /\ gate.last.missing \cap pairing_load_baseline(gate.last.before) = {}
        /\ gate.last.update =>
            pairing_load_baseline(gate.last.before)
                \subseteq pairing_load_baseline(gate.last.after)

\* The case of C24 passing: an untested route is grandfathered by a full
\* --update-baseline scan and the normal full scan after it exits 0.
C24_Grandfathered ==
    /\ NormalAfterUpdate
    /\ gate.last.changed = "none"
    /\ gate.prev.missing # {}
    /\ gate.last.files # {}
    /\ gate.last.exit = 0

\* C21: check_type_holes, check_silent_catches and
\* verify_integration_pairing given --changed-files without paths look at no
\* file and exit 0.
C21_EmptyChangedListPasses ==
    /\ (run.check = "check_type_holes" /\ run.changed = "empty") =>
        (~run.scanned /\ run.exit = 0)
    /\ (/\ gate.check \in {"check_silent_catches", "verify_integration_pairing"}
        /\ gate.last.check # "none"
        /\ gate.last.changed = "empty") =>
        (gate.last.files = {} /\ gate.last.exit = 0)

AllDone == \A p \in ProcIds : procs[p].pc = "done"

\* What the invocation gives when it runs alone on the baseline file and
\* the coverage.json that were there when it started: check_coverage_ratchet
\* then reads the report of its own subprocess, or the report it found when
\* the subprocess writes none.
Alone(p) ==
    LET own == procs[p].check = "check_coverage_ratchet"
                 /\ procs[p].inp.python
                 /\ procs[p].inp.pytest_report.state # "missing"
    IN  run_check(procs[p].check, procs[p].initial, procs[p].inp,
                  IF own THEN procs[p].inp.pytest_report ELSE procs[p].found)

\* C22: no two checks have the same baseline file, no check reads or writes
\* the baseline file of another, and when two different checks have run in
\* parallel, in any interleaving, each has the exit code and leaves the
\* baseline document it has when run alone.
C22_ParallelChecksAsAlone ==
    /\ \A j1 \in Jobs, j2 \in Jobs : j1 # j2 => BaselinePath(j1) # BaselinePath(j2)
    /\ \A e \in 1..Len(events) :
        events[e].path \in Paths =>
            events[e].path = BaselinePath(procs[events[e].proc].check)
    /\ AllDone =>
        \A p \in ProcIds :
            /\ procs[p].exit = Alone(p).exit
            /\ fs[BaselinePath(procs[p].check)] = Alone(p).doc

\* The same for the pairs of checks that do not have both
\* check_per_file_baseline and check_coverage_ratchet in them.
C22_NoSharedReportAsAlone ==
    (AllDone /\ {procs[1].check, procs[2].check}
                   # {"check_per_file_baseline", "check_coverage_ratchet"}) =>
        \A p \in ProcIds :
            /\ procs[p].exit = Alone(p).exit
            /\ fs[BaselinePath(procs[p].check)] = Alone(p).doc

\* check_per_file_baseline, which alone exits 1 for want of coverage.json,
\* has read the report that the subprocess of check_coverage_ratchet wrote
\* in between, and has exited 0.
C22_SharedReportSeen ==
    /\ AllDone
    /\ procs[1].check = "check_per_file_baseline"
    /\ procs[2].check = "check_coverage_ratchet"
    /\ procs[1].found = MissingReport
    /\ Alone(1).exit = 1
    /\ procs[1].exit = 0
    /\ procs[1].report = procs[2].inp.pytest_report

\* Both invocations read the baseline before either wrote it, and both
\* have finished.
OverlapDone ==
    /\ AllDone
    /\ procs[1].check = "check_type_safety"
    /\ procs[2].check = "check_type_safety"
    /\ Len(events) >= 2
    /\ events[1].op = "read"
    /\ events[2].op = "read"

\* The totals written to type-safety.json by the two invocations, in order.
WrittenTotals ==
    [e \in {k \in 1..Len(events) : events[k].op = "write"} |->
        events[e].doc.total]

\* C28 as stated: after two overlapping invocations of check_type_safety the
\* persisted total is not higher than any total persisted before it.
C28_OverlapNeverEndsHigher ==
    (OverlapDone /\ fs[TYPE_SAFETY_BASELINE].state = "total") =>
        /\ procs[1].initial.state = "total" =>
            fs[TYPE_SAFETY_BASELINE].total <= procs[1].initial.total
        /\ \A e \in DOMAIN WrittenTotals :
            fs[TYPE_SAFETY_BASELINE].total <= WrittenTotals[e]

\* C28 amended: each of two overlapping invocations writes only a total
\* lower than the baseline total it read, so a total the file ends with is
\* never higher than the total that was there when both read it; and the
\* file ends with such a total, or with text that is not JSON, which two
\* writes leave when the second text is shorter than the first and both
\* files were opened before either was written.
C28_OverlapNeverEndsAboveRead ==
    (OverlapDone /\ procs[1].initial.state = "total") =>
        /\ \A e \in DOMAIN WrittenTotals :
            WrittenTotals[e] < procs[1].initial.total
        /\ fs[TYPE_SAFETY_BASELINE].state \in {"total", "invalid"}
        /\ fs[TYPE_SAFETY_BASELINE].state = "total" =>
            fs[TYPE_SAFETY_BASELINE].total <= procs[1].initial.total
        /\ fs[TYPE_SAFETY_BASELINE].state = "invalid" =>
            /\ Len(events) = 6
            /\ events[3].op = "open" /\ events[4].op = "open"
            /\ events[5].size > events[6].size

\* The lost update: both read 2, one saves 0, then the other saves 1.
C28_Witness ==
    /\ OverlapDone
    /\ procs[1].initial = TotalDoc(2)
    /\ Len(events) = 6
    /\ events[4].op = "write" /\ events[4].doc.total = 0
    /\ events[6].op = "write" /\ events[6].doc.total = 1
    /\ fs[TYPE_SAFETY_BASELINE] = TotalDoc(1)

\* The torn file: both read 11 and open the file, one writes 10, then the
\* other writes 1 over it.
C28_TornFile ==
    /\ OverlapDone
    /\ procs[1].initial = TotalDoc(LongTotal + 1)
    /\ Len(events) = 6
    /\ events[5].op = "write" /\ events[5].doc.total = LongTotal
    /\ events[6].op = "write" /\ events[6].doc.total = 1
    /\ fs[TYPE_SAFETY_BASELINE].state = "invalid"

====
